---- MODULE Spec2Model ----
(***************************************************************************)
(* A model of better-calendar: the Calendar of calendar.py (a DateUniverse *)
(* of contiguous days, a boolean business mask and the sorted positions of *)
(* the business days) and the BetterCalendar hub of __init__.py.           *)
(*                                                                         *)
(* Dates are np.datetime64[D] values, i.e. day numbers since 1970-01-01.   *)
(* numpy arrays are sequences: the Python index i is position i + 1.       *)
(* An optional argument is None (the empty set) or Some(x) (a singleton).  *)
(* A call either returns Ok(v) or raises: Raise(kind, about).              *)
(***************************************************************************)
EXTENDS Integers, Sequences, FiniteSets, TLC

VARIABLES
    status,                  \* "absent" | "new" | "ok" | "failed": the Calendar object
    calendar_code,           \* Calendar.calendar_code: the list of codes asked for
    multiple_calendars_mode, \* Calendar.multiple_calendars_mode
    start_date,              \* Calendar.start_date = universe.start64
    end_date,                \* Calendar.end_date = universe.end64
    days,                    \* universe.days
    business_mask,           \* Calendar.business_mask
    business_position,       \* Calendar.business_position
    hub,                     \* "absent" | "ok": the BetterCalendar hub
    world,                   \* what the external holiday libraries know (read-only)
    installed,               \* the optional libraries of the hub that import (read-only)
    ex,                      \* BetterCalendar._ex: exchange key -> adapter
    cty,                     \* BetterCalendar._cty: country key -> adapter
    adapter,                 \* the adapter the caller got last from the hub
    pc,                      \* the caller: "idle", or "returned" with a result in hand
    op,                      \* the operation called last
    args,                    \* its arguments
    result                   \* what it returned or raised

vars == <<status, calendar_code, multiple_calendars_mode, start_date, end_date, days,
          business_mask, business_position, hub, world, installed, ex, cty,
          adapter, pc, op, args, result>>

hubVars == <<hub, world, installed, ex, cty, adapter>>

calendarVars == <<status, calendar_code, multiple_calendars_mode, start_date, end_date,
                  days, business_mask, business_position>>

(***************************************************************************)
(* Bounds of the model.                                                    *)
(***************************************************************************)
MaxDays == 3      \* longest universe, in days
MaxList == 2      \* most dates in one list given to override
MaxOffset == 3    \* largest |n| given to offset_business_days
MaxCodes == 2     \* most calendar codes given to one Calendar
HubDays == 2      \* the days the hub is asked about, from HubStart on

(***************************************************************************)
(* Values.                                                                 *)
(***************************************************************************)
None == {}
Some(x) == {x}
Get(o) == CHOOSE x \in o : TRUE

Ok(v) == [ok |-> TRUE, value |-> v]
\* raise cls(msg): the exception class, which message, and the value it names.
Raise(cls, msg, x) == [ok |-> FALSE, error |-> cls, msg |-> msg, about |-> x]

Max(a, b) == IF a >= b THEN a ELSE b

(***************************************************************************)
(* numpy.                                                                  *)
(***************************************************************************)
\* np.flatnonzero(mask): the indices of the true entries, ascending.
flatnonzero(mask) ==
    SelectSeq([j \in 1..Len(mask) |-> j - 1], LAMBDA i : mask[i + 1])

\* np.searchsorted(a, v, side) on an ascending a: the insertion point of v,
\* before (side = "left") or after (side = "right") the entries equal to v.
searchsorted(a, v, side) ==
    IF side = "left"
    THEN Cardinality({j \in 1..Len(a) : a[j] < v})
    ELSE Cardinality({j \in 1..Len(a) : a[j] <= v})

\* a[lo:hi] of Python, for 0 <= lo and hi <= len(a).
slice(a, lo, hi) == IF hi <= lo THEN << >> ELSE SubSeq(a, lo + 1, hi)

\* np.where(cond, True, mask), elementwise.
where_true(cond, mask) == [j \in 1..Len(mask) |-> IF cond[j] THEN TRUE ELSE mask[j]]

Range(s) == {s[j] : j \in 1..Len(s)}

(***************************************************************************)
(* DateUniverse (date_universe.py).                                        *)
(***************************************************************************)
\* __post_init__: n_days, and days = start + arange(n_days); arange of a
\* non-positive count is empty.
universe_days(start, end) ==
    LET n_days == (end - start) + 1
    IN  [j \in 1..Max(n_days, 0) |-> start + (j - 1)]

\* A variant of locate that answers with the nearest index of the universe.
locate_clamping(d64) ==
    LET i == d64 - start_date
    IN  IF i < 0 THEN Ok(0)
        ELSE IF i >= Len(days) THEN Ok(Max(Len(days) - 1, 0))
        ELSE Ok(i)

\* locate(d64): the index of d64, or an out-of-range error.
locate(d64) ==
    LET i == d64 - start_date
    IN  IF i < 0 \/ i >= Len(days)
        THEN Raise("ValueError", "outside universe", d64)
        ELSE Ok(i)

\* A variant of weekday that numbers the days from Sunday.
weekday_from_sunday(d64) == ((d64 + 4) % 7) + 1

\* weekday: 1 = Monday .. 7 = Sunday, from the day number.
weekday(d64) == ((d64 + 3) % 7) + 1

\* The Gregorian date of a day number, as numpy's casts of datetime64[D] to
\* [Y] and [M] and datetime's date.fromisoformat give it.
civil_from_days(d64) ==
    LET z == d64 + 719468
        era == z \div 146097
        doe == z - era * 146097
        yoe == (doe - doe \div 1460 + doe \div 36524 - doe \div 146096) \div 365
        doy == doe - (365 * yoe + yoe \div 4 - yoe \div 100)
        mp == (5 * doy + 2) \div 153
        m == IF mp < 10 THEN mp + 3 ELSE mp - 9
    IN  [year |-> yoe + era * 400 + (IF m <= 2 THEN 1 ELSE 0),
         month |-> m,
         day |-> doy - (153 * mp + 2) \div 5 + 1]

\* The day number of the first of January of a year.
days_from_january_first(y) ==
    LET yp == y - 1
        era == yp \div 400
        yoe == yp - era * 400
        doe == yoe * 365 + yoe \div 4 - yoe \div 100 + 306
    IN  era * 146097 + doe - 719468

\* DateUniverse.year, month, month_key, quarter, semester of one day.
year(d64) == civil_from_days(d64).year
month(d64) == civil_from_days(d64).month
month_key(d64) == year(d64) * 12 + (month(d64) - 1)
quarter(d64) == (month(d64) - 1) \div 3 + 1
semester(d64) == (month(d64) - 1) \div 6 + 1

\* A variant of week that counts the weeks of a year from its first of January.
week_from_january_first(d64) ==
    (d64 - days_from_january_first(year(d64))) \div 7 + 1

\* date.isocalendar(): an ISO week belongs to the year of its Thursday, and
\* its number counts the Thursdays of that year.
iso_thursday(d64) == d64 - weekday(d64) + 4
iso_year(d64) == year(iso_thursday(d64))
week(d64) ==
    (iso_thursday(d64) - days_from_january_first(iso_year(d64))) \div 7 + 1

(***************************************************************************)
(* Date strings (utils.py). A string is modelled by what the parser reads  *)
(* of it: its maximal runs of digits in order (each with its text, its     *)
(* number of digits and its value), which are separated by non-digits, and *)
(* whether whitespace surrounds it; with no run of digits it is blank.     *)
(***************************************************************************)
DigitGroup(text, len, val) == [text |-> text, len |-> len, val |-> val]

\* The runs of digits a string may hold.
DigitGroups ==
    {DigitGroup("5", 1, 5), DigitGroup("02", 2, 2), DigitGroup("31", 2, 31),
     DigitGroup("2025", 4, 2025), DigitGroup("0002", 4, 2),
     DigitGroup("20250231", 8, 20250231)}

\* The strings passed to the parser: up to MaxGroups runs of digits.
MaxGroups == 4
DateStrings ==
    [groups : UNION {[1..n -> DigitGroups] : n \in 0..MaxGroups}, padded : BOOLEAN]

\* datetime.date(y, m, d) accepts the days that exist.
is_leap(y) == y % 4 = 0 /\ (y % 100 # 0 \/ y % 400 = 0)
days_in_month(y, m) ==
    IF m \in {4, 6, 9, 11} THEN 30
    ELSE IF m = 2 THEN (IF is_leap(y) THEN 29 ELSE 28)
    ELSE 31
date_exists(y, m, d) ==
    /\ 1 <= y /\ y <= 9999
    /\ 1 <= m /\ m <= 12
    /\ 1 <= d /\ d <= days_in_month(y, m)

\* _parse_date_str(s, dayfirst)
parse_date_str(s, dayfirst) ==
    LET parts == s.groups IN
    IF Len(parts) = 0
    THEN Raise("ValueError", "Empty date string", s)
    ELSE IF Len(parts) = 1 /\ parts[1].len = 8
    THEN Raise("ValueError", "Ambiguous date string without separators", s)
    ELSE IF Len(parts) # 3
    THEN Raise("ValueError", "Expected exactly 3 numeric components", s)
    ELSE LET a == parts[1]
             b == parts[2]
             c == parts[3]
             ymd == IF a.len = 4 /\ c.len # 4 THEN Ok(<<a.val, b.val, c.val>>)
                    ELSE IF c.len = 4 /\ a.len # 4
                    THEN (IF dayfirst THEN Ok(<<c.val, b.val, a.val>>)
                          ELSE Ok(<<c.val, a.val, b.val>>))
                    ELSE IF a.len = 4 /\ c.len = 4
                    THEN Raise("ValueError", "two 4-digit components", s)
                    ELSE Raise("ValueError", "A 4-digit year must be first or last", s)
         IN  IF ~ymd.ok THEN ymd
             ELSE IF ~date_exists(ymd.value[1], ymd.value[2], ymd.value[3])
             THEN Raise("ValueError", "Invalid calendar date", s)
             ELSE Ok([year |-> ymd.value[1], month |-> ymd.value[2],
                      day |-> ymd.value[3]])

(***************************************************************************)
(* The calendar-code registry (mapping.py) and the mask builders           *)
(* (providers.py).  The registry is modelled on the entries below; the     *)
(* other entries differ only in their names.                               *)
(***************************************************************************)
CALENDAR_CODES ==
    [c \in {"DEFAULT", "FR", "XPAR"} |->
        CASE c = "DEFAULT" -> <<"weekend", "None">>
          [] c = "FR"      -> <<"country", "FR">>
          [] c = "XPAR"    -> <<"exchange", "XPAR">>]

\* The codes a caller may give: registered ones, an unregistered one, and a
\* registered one in lower case.
CodeArgs == {"DEFAULT", "FR", "XPAR", "ZZ_NOPE", "fr"}

\* The provider codes whose data comes from an external library.
ExternalProviders == {"FR", "XPAR"}

\* What the external libraries answer for a universe: each is installed or
\* not, and an installed one names the business dates of the range.
ExternalAnswers(udays) ==
    [ExternalProviders -> {[installed |-> FALSE, business |-> {}]}
        \cup {[installed |-> TRUE, business |-> W] : W \in SUBSET Range(udays)}]

\* DefaultMaskBuilder.build_mask
DefaultMaskBuilder_build_mask(udays) ==
    Ok([j \in 1..Len(udays) |-> weekday(udays[j]) # 6 /\ weekday(udays[j]) # 7])

\* ExchangeMaskBuilder.build_mask: the sessions of the range are business days.
ExchangeMaskBuilder_build_mask(exchange_code, udays, ext) ==
    IF ~ext[exchange_code].installed
    THEN Raise("ValueError", "pandas_market_calendars is required", "None")
    ELSE Ok([j \in 1..Len(udays) |-> udays[j] \in ext[exchange_code].business])

\* CountryMaskBuilder.build_mask: is_working_day of each day.
CountryMaskBuilder_build_mask(country_code, udays, ext) ==
    IF ~ext[country_code].installed
    THEN Raise("ValueError", "workalendar is required", "None")
    ELSE Ok([j \in 1..Len(udays) |-> udays[j] \in ext[country_code].business])

\* The builder _create_mask picks for a registry entry, and its mask.
build_mask(entry, udays, ext) ==
    CASE entry[1] = "exchange" -> ExchangeMaskBuilder_build_mask(entry[2], udays, ext)
      [] entry[1] = "country"  -> CountryMaskBuilder_build_mask(entry[2], udays, ext)
      [] entry[1] = "weekend"  -> DefaultMaskBuilder_build_mask(udays)
      [] OTHER -> Raise("ValueError", "Unknown provider class", entry[1])

\* A variant of logical_and_reduce that keeps the first mask only.
logical_and_first(masks, n) == [j \in 1..n |-> masks[1][j]]

\* np.logical_or.reduce(masks) and np.logical_and.reduce(masks).
logical_or_reduce(masks, n) == [j \in 1..n |-> \E k \in 1..Len(masks) : masks[k][j]]
logical_and_reduce(masks, n) == [j \in 1..n |-> \A k \in 1..Len(masks) : masks[k][j]]

\* A variant of the loop that gives an unknown code the weekend-only mask.
RECURSIVE build_masks_defaulting(_, _, _)
build_masks_defaulting(codes, udays, ext) ==
    IF codes = << >> THEN Ok(<< >>)
    ELSE LET code == Head(codes)
             m == IF code \notin DOMAIN CALENDAR_CODES
                  THEN DefaultMaskBuilder_build_mask(udays)
                  ELSE build_mask(CALENDAR_CODES[code], udays, ext)
         IN  IF ~m.ok THEN m
             ELSE LET rest == build_masks_defaulting(Tail(codes), udays, ext) IN
                  IF ~rest.ok THEN rest ELSE Ok(<<m.value>> \o rest.value)

\* The loop of _create_mask: one mask per code, in order; the first code
\* that fails ends the loop with its error.
RECURSIVE build_masks(_, _, _)
build_masks(codes, udays, ext) ==
    IF codes = << >> THEN Ok(<< >>)
    ELSE LET code == Head(codes) IN
         IF code \notin DOMAIN CALENDAR_CODES
         THEN Raise("ValueError", "Unknown calendar code", code)
         ELSE LET m == build_mask(CALENDAR_CODES[code], udays, ext) IN
              IF ~m.ok THEN m
              ELSE LET rest == build_masks(Tail(codes), udays, ext) IN
                   IF ~rest.ok THEN rest ELSE Ok(<<m.value>> \o rest.value)

\* A variant of the final combination that reads any other mode as intersection.
combine_masks_lenient(masks, mode, n) ==
    IF mode = "union" THEN Ok(logical_or_reduce(masks, n))
    ELSE Ok(logical_and_reduce(masks, n))

\* The final combination of _create_mask.
combine_masks(masks, mode, n) ==
    IF mode = "union" THEN Ok(logical_or_reduce(masks, n))
    ELSE IF mode = "intersection" THEN Ok(logical_and_reduce(masks, n))
    ELSE Raise("ValueError", "Unknown multiple_calendars_mode", mode)

\* Calendar._create_mask; the value also carries the per-code masks.
create_mask(codes, mode, udays, ext) ==
    IF Len(codes) = 0
    THEN Raise("ValueError", "At least one calendar code must be provided", "None")
    ELSE LET ms == build_masks(codes, udays, ext) IN
         IF ~ms.ok THEN ms
         ELSE LET final == combine_masks(ms.value, mode, Len(udays)) IN
              IF ~final.ok THEN final
              ELSE Ok([mask |-> final.value, masks |-> ms.value])

\* Calendar.__init__: the universe, the mask and the positions.
Calendar_init(codes, mode, start, end, ext) ==
    LET udays == universe_days(start, end)
        m == create_mask(codes, mode, udays, ext)
    IN  IF ~m.ok THEN m
        ELSE Ok([days |-> udays, mask |-> m.value.mask, masks |-> m.value.masks,
                 position |-> flatnonzero(m.value.mask)])

\* The default start_date of the constructor, "1970-01-01", is day 0.
DefaultStart == 0

UniverseEnds == {DefaultStart + n - 1 : n \in 0..MaxDays}

\* The dates a caller may pass: the universe and one day beyond each end.
DateArgs == (start_date - 1)..(end_date + 1)

\* The lists a caller may give to override: None, or up to MaxList dates of
\* the universe or the day after it (the order of a list does not matter to
\* override: a list is modelled as the set of its dates).
OverrideDates == start_date..(end_date + 1)
ListArgs == {None} \cup {Some(S) : S \in {T \in SUBSET OverrideDates : Cardinality(T) <= MaxList}}
ListDates(o) == IF o = None THEN {} ELSE Get(o)

(***************************************************************************)
(* Calendar: helpers and override (calendar.py).                           *)
(***************************************************************************)
\* _range_indices(start, end)
range_indices(start, end) ==
    LET s == IF start = None THEN start_date ELSE Get(start)
        e == IF end = None THEN end_date ELSE Get(end)
        i0 == locate(s)
        i1 == locate(e)
    IN  IF ~i0.ok THEN i0
        ELSE IF ~i1.ok THEN i1
        ELSE IF i1.value < i0.value THEN Raise("ValueError", "end < start", e)
        ELSE Ok(<<i0.value, i1.value>>)

\* override_mask after the two loops of override: the first writes True at
\* each new business day, the second writes False at each new non-business day.
override_mask_of(adds, removes) ==
    LET zeros == [j \in 1..Len(days) |-> FALSE]
        pass1 == [j \in 1..Len(days) |-> IF days[j] \in adds THEN TRUE ELSE zeros[j]]
    IN  [j \in 1..Len(days) |-> IF days[j] \in removes THEN FALSE ELSE pass1[j]]

\* A variant of override that flips the entries at the new business days.
override_flipping(new_business_days, new_non_business_days) ==
    LET adds == ListDates(new_business_days)
        removes == ListDates(new_non_business_days)
        badAdds == {d \in adds : ~locate(d).ok}
        badRemoves == {d \in removes : ~locate(d).ok}
    IN  IF badAdds # {} THEN locate(CHOOSE d \in badAdds : TRUE)
        ELSE IF badRemoves # {} THEN locate(CHOOSE d \in badRemoves : TRUE)
        ELSE LET om == override_mask_of(adds, removes)
                 mask == [j \in 1..Len(business_mask) |->
                            IF om[j] THEN ~business_mask[j] ELSE business_mask[j]]
             IN  Ok([mask |-> mask, position |-> flatnonzero(mask)])

\* A variant of override that leaves business_position as it was.
override_stale_position(new_business_days, new_non_business_days) ==
    LET adds == ListDates(new_business_days)
        removes == ListDates(new_non_business_days)
        badAdds == {d \in adds : ~locate(d).ok}
        badRemoves == {d \in removes : ~locate(d).ok}
    IN  IF badAdds # {} THEN locate(CHOOSE d \in badAdds : TRUE)
        ELSE IF badRemoves # {} THEN locate(CHOOSE d \in badRemoves : TRUE)
        ELSE LET mask == where_true(override_mask_of(adds, removes), business_mask)
             IN  Ok([mask |-> mask, position |-> business_position])

\* A variant of override that clears the entries at the new non-business days.
override_clearing(new_business_days, new_non_business_days) ==
    LET adds == ListDates(new_business_days)
        removes == ListDates(new_non_business_days)
        badAdds == {d \in adds : ~locate(d).ok}
        badRemoves == {d \in removes : ~locate(d).ok}
    IN  IF badAdds # {} THEN locate(CHOOSE d \in badAdds : TRUE)
        ELSE IF badRemoves # {} THEN locate(CHOOSE d \in badRemoves : TRUE)
        ELSE LET mask == [j \in 1..Len(business_mask) |->
                            IF days[j] \in removes THEN FALSE
                            ELSE IF days[j] \in adds THEN TRUE
                            ELSE business_mask[j]]
             IN  Ok([mask |-> mask, position |-> flatnonzero(mask)])

\* Calendar.override: the new business_mask and business_position, or the
\* error of the first date that locate rejects (nothing is assigned then).
override(new_business_days, new_non_business_days) ==
    LET adds == ListDates(new_business_days)
        removes == ListDates(new_non_business_days)
        badAdds == {d \in adds : ~locate(d).ok}
        badRemoves == {d \in removes : ~locate(d).ok}
    IN  IF badAdds # {} THEN locate(CHOOSE d \in badAdds : TRUE)
        ELSE IF badRemoves # {} THEN locate(CHOOSE d \in badRemoves : TRUE)
        ELSE LET mask == where_true(override_mask_of(adds, removes), business_mask)
             IN  Ok([mask |-> mask, position |-> flatnonzero(mask)])

(***************************************************************************)
(* Calendar: point and range queries.                                      *)
(***************************************************************************)
\* week_number(day): the ISO week of the day.
week_number(day) ==
    LET i == locate(day)
    IN  IF ~i.ok THEN i ELSE Ok(week(days[i.value + 1]))

\* is_business(day)
is_business(day) ==
    LET i == locate(day)
    IN  IF ~i.ok THEN i ELSE Ok(business_mask[i.value + 1])

\* A variant of business_days that searches the end of the range on the left side.
business_days_left_end(start, end) ==
    LET r == range_indices(start, end) IN
    IF ~r.ok THEN r
    ELSE LET pos == business_position
             left == searchsorted(pos, r.value[1], "left")
             right == searchsorted(pos, r.value[2], "left")
             sel == slice(pos, left, right)
         IN  Ok([j \in 1..Len(sel) |-> days[sel[j] + 1]])

\* business_days(start_date, end_date): the list of dates.
business_days(start, end) ==
    LET r == range_indices(start, end) IN
    IF ~r.ok THEN r
    ELSE LET pos == business_position
             left == searchsorted(pos, r.value[1], "left")
             right == searchsorted(pos, r.value[2], "right")
             sel == slice(pos, left, right)
         IN  Ok([j \in 1..Len(sel) |-> days[sel[j] + 1]])

\* non_business_days(start_date, end_date): arange(i0, i1 + 1) without the
\* business positions.
non_business_days(start, end) ==
    LET r == range_indices(start, end) IN
    IF ~r.ok THEN r
    ELSE LET all_pos == [j \in 1..(r.value[2] - r.value[1] + 1) |-> r.value[1] + (j - 1)]
             sel == SelectSeq(all_pos, LAMBDA i : i \notin Range(business_position))
         IN  Ok([j \in 1..Len(sel) |-> days[sel[j] + 1]])

OptDateArgs == {None} \cup {Some(d) : d \in DateArgs}

\* str.lower() on the values of inclusive that are passed.
lower(s) ==
    CASE s = "BOTH" -> "both"
      [] s = "Left" -> "left"
      [] OTHER -> s

InclusiveArgs == {"both", "left", "right", "none", "BOTH", "Left", "neither"}
TypeArgs == {"calendar", "business", "weeks"}

\* _inclusive_flags(inclusive): <<include start, include end>>.
inclusive_flags(inclusive) ==
    LET inc == lower(inclusive) IN
    CASE inc = "both" -> Ok(<<TRUE, TRUE>>)
      [] inc = "left" -> Ok(<<TRUE, FALSE>>)
      [] inc = "right" -> Ok(<<FALSE, TRUE>>)
      [] inc = "none" -> Ok(<<FALSE, FALSE>>)
      [] OTHER -> Raise("ValueError", "inclusive must be one of", inclusive)

\* A variant of days_between that does not clamp the count.
days_between_unclamped(start, end, type, inclusive) ==
    LET d1 == IF start = None THEN start_date ELSE Get(start)
        d2 == IF end = None THEN end_date ELSE Get(end)
        i1 == locate(d1)
        i2 == locate(d2)
    IN  IF ~i1.ok THEN i1
        ELSE IF ~i2.ok THEN i2
        ELSE IF i2.value < i1.value
            THEN Raise("ValueError", "end_date >= start_date", <<d1, d2>>)
        ELSE LET f == inclusive_flags(inclusive) IN
             IF ~f.ok THEN f
             ELSE LET inc_start == f.value[1]
                      inc_end == f.value[2]
                  IN
                  IF type = "calendar"
                  THEN Ok((i2.value - i1.value + 1)
                          - (IF inc_start THEN 0 ELSE 1)
                          - (IF inc_end THEN 0 ELSE 1))
                  ELSE IF type = "business"
                  THEN LET left == searchsorted(business_position, i1.value,
                                       IF inc_start THEN "left" ELSE "right")
                           right == searchsorted(business_position, i2.value,
                                       IF inc_end THEN "right" ELSE "left")
                       IN  Ok(right - left)
                  ELSE Raise("ValueError", "type must be 'calendar' or 'business'", type)

\* A variant of days_between that reads an unrecognised inclusive as "both".
days_between_defaulting(start, end, type, inclusive) ==
    days_between_unclamped(start, end, type,
        IF inclusive_flags(inclusive).ok THEN inclusive ELSE "both")

\* days_between(start_date, end_date, type=, inclusive=).
days_between(start, end, type, inclusive) ==
    LET d1 == IF start = None THEN start_date ELSE Get(start)
        d2 == IF end = None THEN end_date ELSE Get(end)
        i1 == locate(d1)
        i2 == locate(d2)
    IN  IF ~i1.ok THEN i1
        ELSE IF ~i2.ok THEN i2
        ELSE IF i2.value < i1.value
            THEN Raise("ValueError", "end_date >= start_date", <<d1, d2>>)
        ELSE LET f == inclusive_flags(inclusive) IN
             IF ~f.ok THEN f
             ELSE LET inc_start == f.value[1]
                      inc_end == f.value[2]
                  IN
                  IF type = "calendar"
                  THEN LET cnt == (i2.value - i1.value + 1)
                                  - (IF inc_start THEN 0 ELSE 1)
                                  - (IF inc_end THEN 0 ELSE 1)
                       IN  Ok(Max(cnt, 0))
                  ELSE IF type = "business"
                  THEN LET left == searchsorted(business_position, i1.value,
                                       IF inc_start THEN "left" ELSE "right")
                           right == searchsorted(business_position, i2.value,
                                       IF inc_end THEN "right" ELSE "left")
                       IN  Ok(Max(right - left, 0))
                  ELSE Raise("ValueError", "type must be 'calendar' or 'business'", type)

OffsetArgs == (0 - MaxOffset)..MaxOffset

\* A variant of offset_business_days whose forward search counts day itself.
offset_counting_day(day, n) ==
    IF day < start_date \/ day > end_date
    THEN Raise("ValueError", "outside the calendar range", day)
    ELSE LET i == locate(day).value
             pos == business_position
         IN  IF n = 0 THEN Ok(day)
             ELSE IF n > 0
             THEN LET k == searchsorted(pos, i, "left") + (n - 1) IN
                  IF k >= Len(pos)
                  THEN Raise("ValueError", "beyond the calendar end date", <<day, n>>)
                  ELSE Ok(days[pos[k + 1] + 1])
             ELSE LET k == searchsorted(pos, i, "left") + n IN
                  IF k < 0
                  THEN Raise("ValueError", "beyond the calendar start date", <<day, n>>)
                  ELSE Ok(days[pos[k + 1] + 1])

\* A variant of offset_business_days that stops at the last or first
\* business day instead of failing.
offset_clamping(day, n) ==
    IF day < start_date \/ day > end_date
    THEN Raise("ValueError", "outside the calendar range", day)
    ELSE LET i == locate(day).value
             pos == business_position
         IN  IF n = 0 \/ Len(pos) = 0 THEN Ok(day)
             ELSE IF n > 0
             THEN LET k == searchsorted(pos, i, "right") + (n - 1) IN
                  IF k >= Len(pos) THEN Ok(days[pos[Len(pos)] + 1])
                  ELSE Ok(days[pos[k + 1] + 1])
             ELSE LET k == searchsorted(pos, i, "left") + n IN
                  IF k < 0 THEN Ok(days[pos[1] + 1])
                  ELSE Ok(days[pos[k + 1] + 1])

\* A variant of offset_business_days whose backward search counts day itself.
offset_back_counting_day(day, n) ==
    IF day < start_date \/ day > end_date
    THEN Raise("ValueError", "outside the calendar range", day)
    ELSE LET i == locate(day).value
             pos == business_position
         IN  IF n = 0 THEN Ok(day)
             ELSE IF n > 0
             THEN LET k == searchsorted(pos, i, "right") + (n - 1) IN
                  IF k >= Len(pos)
                  THEN Raise("ValueError", "beyond the calendar end date", <<day, n>>)
                  ELSE Ok(days[pos[k + 1] + 1])
             ELSE LET k == searchsorted(pos, i, "right") + n IN
                  IF k < 0
                  THEN Raise("ValueError", "beyond the calendar start date", <<day, n>>)
                  ELSE Ok(days[pos[k + 1] + 1])

\* offset_business_days(day, n).
offset_business_days(day, n) ==
    IF day < start_date \/ day > end_date
    THEN Raise("ValueError", "outside the calendar range", day)
    ELSE LET i == locate(day).value
             pos == business_position
         IN  IF n = 0 THEN Ok(day)
             ELSE IF n > 0
             THEN LET k == searchsorted(pos, i, "right") + (n - 1) IN
                  IF k >= Len(pos)
                  THEN Raise("ValueError", "beyond the calendar end date", <<day, n>>)
                  ELSE Ok(days[pos[k + 1] + 1])
             ELSE LET k == searchsorted(pos, i, "left") + n IN
                  IF k < 0
                  THEN Raise("ValueError", "beyond the calendar start date", <<day, n>>)
                  ELSE Ok(days[pos[k + 1] + 1])

next_business_day(day) == offset_business_days(day, 1)
previous_business_day(day) == offset_business_days(day, 0 - 1)

\* The values of which: a string [str |-> s] or an integer [int |-> n].
WhichStr(s) == [str |-> s]
WhichInt(n) == [int |-> n]
IsStr(w, s) == "str" \in DOMAIN w /\ w.str = s
WhichArgs ==
    {WhichStr("first"), WhichStr("last"), WhichStr("all"), WhichStr("second"),
     WhichInt(0), WhichInt(1), WhichInt(2)}
FrequencyArgs == {"M", "Q", "S", "W", "Y", "month", "fortnight"}

\* The 0-based indices at which a group of equal consecutive keys starts,
\* and those at which it ends.
group_starts(key) ==
    flatnonzero([j \in 1..Len(key) |-> j = 1 \/ key[j] # key[j - 1]])
group_ends(key) ==
    LET start_idx == group_starts(key) IN
    [g \in 1..Len(start_idx) |->
        IF g < Len(start_idx) THEN start_idx[g + 1] - 1 ELSE Len(key) - 1]

\* A variant of _select_in_groups whose n-th entry may lie past the end of
\* its group.
select_in_groups_past_end(pos, key, which) ==
    IF Len(pos) = 0 THEN Ok(pos)
    ELSE IF IsStr(which, "all") THEN Ok(pos)
    ELSE LET start_idx == group_starts(key)
             end_idx == group_ends(key)
         IN  IF IsStr(which, "first")
             THEN Ok([g \in 1..Len(start_idx) |-> pos[start_idx[g] + 1]])
             ELSE IF IsStr(which, "last")
             THEN Ok([g \in 1..Len(end_idx) |-> pos[end_idx[g] + 1]])
             ELSE IF "int" \in DOMAIN which /\ which.int >= 1
             THEN LET nth == [g \in 1..Len(start_idx) |-> start_idx[g] + (which.int - 1)]
                      valid == SelectSeq([g \in 1..Len(nth) |-> g],
                                         LAMBDA g : nth[g] <= Len(pos) - 1)
                  IN  Ok([v \in 1..Len(valid) |-> pos[nth[valid[v]] + 1]])
             ELSE Raise("ValueError", "which must be 'first', 'last', 'all' or an int >= 1",
                        which)

\* _select_in_groups(pos, key, which)
select_in_groups(pos, key, which) ==
    IF Len(pos) = 0 THEN Ok(pos)
    ELSE IF IsStr(which, "all") THEN Ok(pos)
    ELSE LET start_idx == group_starts(key)
             end_idx == group_ends(key)
         IN  IF IsStr(which, "first")
             THEN Ok([g \in 1..Len(start_idx) |-> pos[start_idx[g] + 1]])
             ELSE IF IsStr(which, "last")
             THEN Ok([g \in 1..Len(end_idx) |-> pos[end_idx[g] + 1]])
             ELSE IF "int" \in DOMAIN which /\ which.int >= 1
             THEN LET nth == [g \in 1..Len(start_idx) |-> start_idx[g] + (which.int - 1)]
                      valid == SelectSeq([g \in 1..Len(nth) |-> g],
                                         LAMBDA g : nth[g] <= end_idx[g])
                  IN  Ok([v \in 1..Len(valid) |-> pos[nth[valid[v]] + 1]])
             ELSE Raise("ValueError", "which must be 'first', 'last', 'all' or an int >= 1",
                        which)

\* The period key of the schedule methods for a frequency token, at the
\* universe positions pos.
frequency_key(frequency, pos) ==
    IF frequency \in {"M", "month", "Month", "MONTH"}
    THEN Ok([j \in 1..Len(pos) |-> month_key(days[pos[j] + 1])])
    ELSE IF frequency \in {"Q", "quarter", "Quarter", "QUARTER"}
    THEN Ok([j \in 1..Len(pos) |->
                year(days[pos[j] + 1]) * 10 + quarter(days[pos[j] + 1])])
    ELSE IF frequency \in {"S", "semester", "Semester", "SEMESTER"}
    THEN Ok([j \in 1..Len(pos) |->
                year(days[pos[j] + 1]) * 10 + semester(days[pos[j] + 1])])
    ELSE IF frequency \in {"W", "week", "Week", "WEEK"}
    THEN Ok([j \in 1..Len(pos) |->
                iso_year(days[pos[j] + 1]) * 100 + week(days[pos[j] + 1])])
    ELSE IF frequency \in {"Y", "year", "Year", "YEAR"}
    THEN Ok([j \in 1..Len(pos) |-> year(days[pos[j] + 1])])
    ELSE Raise("ValueError", "freq must be 'M', 'W', 'Q', 'S' or 'Y'", frequency)

\* A variant of schedule_business that selects among the business days of
\* the whole universe.
schedule_business_whole_universe(frequency, which, start, end) ==
    LET r == range_indices(start, end) IN
    IF ~r.ok THEN r
    ELSE LET pos == business_position
         IN  IF Len(pos) = 0 THEN Ok(<< >>)
             ELSE LET key == frequency_key(frequency, pos) IN
                  IF ~key.ok THEN key
                  ELSE LET sel == select_in_groups(pos, key.value, which) IN
                       IF ~sel.ok THEN sel
                       ELSE Ok([j \in 1..Len(sel.value) |-> days[sel.value[j] + 1]])

\* schedule_business(frequency=, which=, start_date=, end_date=)
schedule_business(frequency, which, start, end) ==
    LET r == range_indices(start, end) IN
    IF ~r.ok THEN r
    ELSE LET bpos == business_position
             left == searchsorted(bpos, r.value[1], "left")
             right == searchsorted(bpos, r.value[2], "right")
             pos == slice(bpos, left, right)
         IN  IF Len(pos) = 0 THEN Ok(<< >>)
             ELSE LET key == frequency_key(frequency, pos) IN
                  IF ~key.ok THEN key
                  ELSE LET sel == select_in_groups(pos, key.value, which) IN
                       IF ~sel.ok THEN sel
                       ELSE Ok([j \in 1..Len(sel.value) |-> days[sel.value[j] + 1]])

WeekDayArgs == {None, Some(1), Some(2), Some(7)}

\* A variant of schedule_calendar that starts from the business days of the range.
schedule_calendar_on_business(frequency, week_day, which, start, end) ==
    LET r == range_indices(start, end) IN
    IF ~r.ok THEN r
    ELSE LET all_pos == [j \in 1..(r.value[2] - r.value[1] + 1) |-> r.value[1] + (j - 1)]
             open_pos == SelectSeq(all_pos, LAMBDA i : business_mask[i + 1])
             pos == IF week_day = None THEN open_pos
                    ELSE SelectSeq(open_pos,
                                   LAMBDA i : weekday(days[i + 1]) = Get(week_day))
         IN  IF Len(pos) = 0 THEN Ok(<< >>)
             ELSE IF IsStr(which, "all")
             THEN Ok([j \in 1..Len(pos) |-> days[pos[j] + 1]])
             ELSE LET key == frequency_key(frequency, pos) IN
                  IF ~key.ok THEN key
                  ELSE LET sel == select_in_groups(pos, key.value, which) IN
                       IF ~sel.ok THEN sel
                       ELSE Ok([j \in 1..Len(sel.value) |-> days[sel.value[j] + 1]])

\* schedule_calendar(frequency=, week_day=, which=, start_date=, end_date=)
schedule_calendar(frequency, week_day, which, start, end) ==
    LET r == range_indices(start, end) IN
    IF ~r.ok THEN r
    ELSE LET all_pos == [j \in 1..(r.value[2] - r.value[1] + 1) |-> r.value[1] + (j - 1)]
             pos == IF week_day = None THEN all_pos
                    ELSE SelectSeq(all_pos,
                                   LAMBDA i : weekday(days[i + 1]) = Get(week_day))
         IN  IF Len(pos) = 0 THEN Ok(<< >>)
             ELSE IF IsStr(which, "all")
             THEN Ok([j \in 1..Len(pos) |-> days[pos[j] + 1]])
             ELSE LET key == frequency_key(frequency, pos) IN
                  IF ~key.ok THEN key
                  ELSE LET sel == select_in_groups(pos, key.value, which) IN
                       IF ~sel.ok THEN sel
                       ELSE Ok([j \in 1..Len(sel.value) |-> days[sel.value[j] + 1]])

\* The first days of the universes the schedules are called on: 1970-01-31,
\* 1970-03-31, 1970-06-30, 1970-12-31, 2024-12-29 and 2024-12-31, each just
\* before the end of a week, month, quarter, semester or year.
ScheduleStarts == {30, 89, 180, 364, 20086, 20088}

\* January 2026.
January2026 == <<20454, 20484>>

\* The range arguments of the schedule calls: every date around a small
\* universe, the two ends of a larger one.
ScheduleDateArgs ==
    IF Len(days) <= MaxDays + 1 THEN OptDateArgs
    ELSE {None, Some(start_date), Some(end_date)}

(***************************************************************************)
(* The state after construction, and the calls.                            *)
(***************************************************************************)
NoCall == /\ pc = "idle"
          /\ op = "none"
          /\ args = << >>
          /\ result = << >>

\* A Calendar built from one registered code with the default mode, over a
\* universe of 0..MaxDays days from the default start date.
NoHub ==
    /\ hub = "absent"
    /\ world = << >>
    /\ installed = {}
    /\ ex = << >>
    /\ cty = << >>
    /\ adapter = << >>

Init ==
    /\ NoCall
    /\ NoHub
    /\ \E code \in DOMAIN CALENDAR_CODES, end \in UniverseEnds :
       \E ext \in ExternalAnswers(universe_days(DefaultStart, end)) :
          LET c == Calendar_init(<<code>>, "union", DefaultStart, end, ext) IN
          /\ c.ok
          /\ status = "ok"
          /\ calendar_code = <<code>>
          /\ multiple_calendars_mode = "union"
          /\ start_date = DefaultStart
          /\ end_date = end
          /\ days = c.value.days
          /\ business_mask = c.value.mask
          /\ business_position = c.value.position

\* The caller takes the result; the next call can start.
Return ==
    /\ pc = "returned"
    /\ pc' = "idle"
    /\ op' = "none"
    /\ args' = << >>
    /\ result' = << >>
    /\ UNCHANGED calendarVars
    /\ UNCHANGED hubVars

Returned(name, a, r) ==
    /\ pc' = "returned"
    /\ op' = name
    /\ args' = a
    /\ result' = r

\* A variant of the call of override whose loops write into business_mask
\* itself: the dates located before the one that raises are already set.
Call_override_in_place ==
    /\ pc = "idle"
    /\ status = "ok"
    /\ \E nbd \in ListArgs, nnbd \in ListArgs :
          LET r == override(nbd, nnbd)
              located == {d \in ListDates(nbd) : locate(d).ok}
              mask == IF r.ok THEN r.value.mask
                      ELSE where_true(override_mask_of(located, {}), business_mask)
          IN  /\ business_mask' = mask
              /\ business_position' = flatnonzero(mask)
              /\ Returned("override",
                          [new_business_days |-> nbd, new_non_business_days |-> nnbd],
                          IF r.ok THEN Ok("None") ELSE r)
    /\ UNCHANGED <<status, calendar_code, multiple_calendars_mode, start_date, end_date, days>>
    /\ UNCHANGED hubVars

Call_override ==
    /\ pc = "idle"
    /\ status = "ok"
    /\ \E nbd \in ListArgs, nnbd \in ListArgs :
          LET r == override(nbd, nnbd) IN
          /\ business_mask' = IF r.ok THEN r.value.mask ELSE business_mask
          /\ business_position' = IF r.ok THEN r.value.position ELSE business_position
          /\ Returned("override",
                      [new_business_days |-> nbd, new_non_business_days |-> nnbd],
                      IF r.ok THEN Ok("None") ELSE r)
    /\ UNCHANGED <<status, calendar_code, multiple_calendars_mode, start_date, end_date, days>>
    /\ UNCHANGED hubVars

\* A variant of the call of is_business that marks the day asked about as a
\* business day.
Call_is_business_marking ==
    /\ pc = "idle"
    /\ status = "ok"
    /\ \E day \in DateArgs :
          LET i == locate(day)
              mask == IF i.ok THEN [business_mask EXCEPT ![i.value + 1] = TRUE]
                      ELSE business_mask
          IN  /\ business_mask' = mask
              /\ business_position' = flatnonzero(mask)
              /\ Returned("is_business", [day |-> day], is_business(day))
    /\ UNCHANGED <<status, calendar_code, multiple_calendars_mode, start_date, end_date, days>>
    /\ UNCHANGED hubVars

Call_is_business ==
    /\ pc = "idle"
    /\ status = "ok"
    /\ \E day \in DateArgs :
          Returned("is_business", [day |-> day], is_business(day))
    /\ UNCHANGED calendarVars
    /\ UNCHANGED hubVars

Call_business_days ==
    /\ pc = "idle"
    /\ status = "ok"
    /\ \E s \in OptDateArgs, e \in OptDateArgs :
          Returned("business_days", [start_date |-> s, end_date |-> e], business_days(s, e))
    /\ UNCHANGED calendarVars
    /\ UNCHANGED hubVars

Call_non_business_days ==
    /\ pc = "idle"
    /\ status = "ok"
    /\ \E s \in OptDateArgs, e \in OptDateArgs :
          Returned("non_business_days", [start_date |-> s, end_date |-> e],
                   non_business_days(s, e))
    /\ UNCHANGED calendarVars
    /\ UNCHANGED hubVars

Call_days_between ==
    /\ pc = "idle"
    /\ status = "ok"
    /\ \E s \in OptDateArgs, e \in OptDateArgs, t \in TypeArgs, inc \in InclusiveArgs :
          Returned("days_between",
                   [start_date |-> s, end_date |-> e, type |-> t, inclusive |-> inc],
                   days_between(s, e, t, inc))
    /\ UNCHANGED calendarVars
    /\ UNCHANGED hubVars

Call_offset_business_days ==
    /\ pc = "idle"
    /\ status = "ok"
    /\ \E day \in DateArgs, n \in OffsetArgs :
          Returned("offset_business_days", [day |-> day, n |-> n],
                   offset_business_days(day, n))
    /\ UNCHANGED calendarVars
    /\ UNCHANGED hubVars

Call_next_business_day ==
    /\ pc = "idle"
    /\ status = "ok"
    /\ \E day \in DateArgs :
          Returned("next_business_day", [day |-> day], next_business_day(day))
    /\ UNCHANGED calendarVars
    /\ UNCHANGED hubVars

Call_previous_business_day ==
    /\ pc = "idle"
    /\ status = "ok"
    /\ \E day \in DateArgs :
          Returned("previous_business_day", [day |-> day], previous_business_day(day))
    /\ UNCHANGED calendarVars
    /\ UNCHANGED hubVars

\* What the external libraries answer when only the library behind code is
\* asked: the others are left out.
AnswersFor(code, udays) ==
    LET absent == [installed |-> FALSE, business |-> {}] IN
    IF code \in ExternalProviders
    THEN {[p \in ExternalProviders |-> IF p = code THEN a ELSE absent] :
            a \in {absent} \cup {[installed |-> TRUE, business |-> W] :
                                    W \in SUBSET Range(udays)}}
    ELSE {[p \in ExternalProviders |-> absent]}

\* A calendar of one code over a universe that starts at start.
InitCalendar(code, start, end) ==
    /\ NoCall
    /\ NoHub
    /\ \E ext \in AnswersFor(code, universe_days(start, end)) :
          LET c == Calendar_init(<<code>>, "union", start, end, ext) IN
          /\ c.ok
          /\ status = "ok"
          /\ calendar_code = <<code>>
          /\ multiple_calendars_mode = "union"
          /\ start_date = start
          /\ end_date = end
          /\ days = c.value.days
          /\ business_mask = c.value.mask
          /\ business_position = c.value.position

\* Calendars over a few days around the end of a period.
InitSchedule ==
    \E code \in {"FR"}, start \in ScheduleStarts, n \in 1..MaxDays :
        InitCalendar(code, start, start + n - 1)

\* Weekend-only calendars over a few days around the end of a period.
InitScheduleDefault ==
    \E start \in ScheduleStarts, n \in 1..MaxDays :
        InitCalendar("DEFAULT", start, start + n - 1)

\* The weekend-only calendar of January 2026.
InitJanuary2026 == InitCalendar("DEFAULT", January2026[1], January2026[2])

\* The first of January of 2021, 2023, 2024, 2025 and 2026: a Friday, a
\* Sunday, a Monday, a Wednesday and a Thursday.
NewYears == {18628, 19358, 19723, 20089, 20454}

\* Weekend-only calendars over the two weeks around a first of January.
InitNewYear ==
    \E d \in NewYears : InitCalendar("DEFAULT", d - 7, d + 6)

Call_week_number ==
    /\ pc = "idle"
    /\ status = "ok"
    /\ \E day \in DateArgs :
          Returned("week_number", [day |-> day], week_number(day))
    /\ UNCHANGED calendarVars
    /\ UNCHANGED hubVars

Call_schedule_business ==
    /\ pc = "idle"
    /\ status = "ok"
    /\ \E f \in FrequencyArgs, w \in WhichArgs,
          s \in ScheduleDateArgs, e \in ScheduleDateArgs :
          Returned("schedule_business",
                   [frequency |-> f, which |-> w, start_date |-> s, end_date |-> e],
                   schedule_business(f, w, s, e))
    /\ UNCHANGED calendarVars
    /\ UNCHANGED hubVars

Call_schedule_calendar ==
    /\ pc = "idle"
    /\ status = "ok"
    /\ \E f \in FrequencyArgs, wd \in WeekDayArgs, w \in WhichArgs,
          s \in ScheduleDateArgs, e \in ScheduleDateArgs :
          Returned("schedule_calendar",
                   [frequency |-> f, week_day |-> wd, which |-> w,
                    start_date |-> s, end_date |-> e],
                   schedule_calendar(f, wd, w, s, e))
    /\ UNCHANGED calendarVars
    /\ UNCHANGED hubVars

Next ==
    \/ Call_override
    \/ Call_is_business
    \/ Call_business_days
    \/ Call_non_business_days
    \/ Return

Spec == Init /\ [][Next]_vars

(***************************************************************************)
(* The hub (__init__.py): adapters over the external holiday libraries.    *)
(* Dates are datetime.date values, written as day numbers since 1970-01-01.*)
(***************************************************************************)
\* date(2026, 1, 1), the first day of the tests' sample range.
HubStart == 20454
HubDates == HubStart..(HubStart + HubDays - 1)

\* date.weekday(): Monday = 0 .. Sunday = 6.
py_weekday(d) == (d + 3) % 7

\* _daterange(start, end): every day from start to end, in order.
daterange(start, end) == [j \in 1..Max((end - start) + 1, 0) |-> start + (j - 1)]

\* The strings a caller may give as a code of each kind, and _norm_key on
\* them (strip, upper case, single spaces).
HubCodeArgs(kind) ==
    CASE kind = "exchange" -> {"XPAR", "ZZ_NOPE"}
      [] kind = "country" -> {"FR", " fr ", "ZZ"}
      [] kind = "rfr" -> {"ESTR", "estron  index", "NOPE"}
      [] OTHER -> {"FR"}
norm_key(s) ==
    CASE s = " fr " -> "FR"
      [] s = "estron  index" -> "ESTRON INDEX"
      [] OTHER -> s

\* _norm_rfr_key: the euro sign becomes E, then _norm_key.
norm_rfr_key(s) == norm_key(s)

\* What the libraries know: exchange_calendars the MIC codes, workalendar
\* the ISO codes; _default_rfr_map the tickers of the QuantLib calendars.
KnownMics == {"XPAR"}
KnownIsos == {"FR"}
default_rfr_map ==
    [k \in {"ESTR", "ESTRON INDEX"} |-> [type |-> "quantlib", code |-> "TARGET"]]

\* The data of the libraries over HubDates: the sessions of each exchange,
\* the legal holidays of each country, the business days of each QuantLib
\* calendar.
Worlds == [KnownMics \cup KnownIsos \cup {"TARGET"} -> SUBSET HubDates]

\* The optional libraries the adapters of the hub import on construction.
Libraries == {"exchange_calendars", "workalendar"}

\* ExchangeCalendarAdapter(mic): fails when exchange_calendars does not
\* import, then when it has no such MIC.
ExchangeCalendarAdapter(mic) ==
    LET key == norm_key(mic) IN
    IF "exchange_calendars" \notin installed
    THEN Raise("MissingDependencyError", "exchange_calendars is required", key)
    ELSE IF key \notin KnownMics
    THEN Raise("InvalidCalendarName", "exchange_calendars", key)
    ELSE Ok([type |-> "exchange", code |-> key])

\* CountryCalendarAdapter(iso): fails when workalendar does not import,
\* then when its registry has no such ISO.
CountryCalendarAdapter(iso) ==
    LET key == norm_key(iso) IN
    IF "workalendar" \notin installed
    THEN Raise("MissingDependencyError", "workalendar is required", key)
    ELSE IF key \notin KnownIsos
    THEN Raise("UnknownCountryError", "Unknown/unsupported country ISO code in workalendar", key)
    ELSE Ok([type |-> "country", code |-> key])

\* CombinedCalendarAdapter(calendars, mode).__post_init__
CombinedCalendarAdapter(calendars, mode) ==
    IF Len(calendars) = 0
    THEN Raise("CalendarError", "requires at least one calendar", "None")
    ELSE IF mode \notin {"intersection", "union"}
    THEN Raise("CalendarError", "Invalid mode", mode)
    ELSE Ok([type |-> "combined", calendars |-> calendars, mode |-> mode])

\* OverrideCalendarAdapter(base_calendar, add_holidays, remove_holidays)
OverrideCalendarAdapter(base_calendar, add_holidays, remove_holidays) ==
    Ok([type |-> "override", base_calendar |-> base_calendar,
        add_holidays |-> add_holidays, remove_holidays |-> remove_holidays])

\* A variant of the override that knows no removed holiday.
override_ignoring_removals(add_holidays, remove_holidays, base, d) ==
    IF d \in Range(add_holidays) THEN FALSE ELSE base

\* A variant of the override that looks at the removed holidays first.
override_removals_first(add_holidays, remove_holidays, base, d) ==
    IF d \in Range(remove_holidays) THEN TRUE
    ELSE IF d \in Range(add_holidays) THEN FALSE
    ELSE base

\* OverrideCalendarAdapter.is_business_day: an added holiday first, then a
\* removed one, then the answer of the base calendar.
override_is_business_day(add_holidays, remove_holidays, base, d) ==
    IF d \in Range(add_holidays) THEN FALSE
    ELSE IF d \in Range(remove_holidays) THEN TRUE
    ELSE base

\* What exchange_calendars and QuantLib answer for a date: the data of
\* world on HubDates; outside HubDates they know no holiday, every weekday
\* is open.
library_open(code, d) ==
    IF d \in HubDates THEN d \in world[code] ELSE py_weekday(d) < 5

\* is_business_day of each adapter class.
RECURSIVE adapter_is_business_day(_, _)
adapter_is_business_day(a, d) ==
    CASE a.type = "exchange" -> library_open(a.code, d)
      [] a.type = "country" -> IF py_weekday(d) >= 5 THEN FALSE ELSE d \notin world[a.code]
      [] a.type = "quantlib" -> library_open(a.code, d)
      [] a.type = "combined" ->
            IF a.mode = "union"
            THEN \E k \in 1..Len(a.calendars) : adapter_is_business_day(a.calendars[k], d)
            ELSE \A k \in 1..Len(a.calendars) : adapter_is_business_day(a.calendars[k], d)
      [] a.type = "override" ->
            override_is_business_day(a.add_holidays, a.remove_holidays,
                                     adapter_is_business_day(a.base_calendar, d), d)

\* business_days(start, end) of each adapter class: the exchange adapter
\* lists the sessions of the range, the others filter the days of the range.
adapter_business_days(a, start, end) ==
    IF a.type = "exchange"
    THEN SelectSeq(daterange(start, end), LAMBDA d : d \in world[a.code])
    ELSE SelectSeq(daterange(start, end), LAMBDA d : adapter_is_business_day(a, d))

\* holidays(start, end) of each adapter class: the days of the range that
\* are no session (exchange) or no business day (the others).
adapter_holidays(a, start, end) ==
    IF a.type = "exchange"
    THEN LET sessions == Range(adapter_business_days(a, start, end))
         IN  SelectSeq(daterange(start, end), LAMBDA d : d \notin sessions)
    ELSE SelectSeq(daterange(start, end), LAMBDA d : ~adapter_is_business_day(a, d))

\* BetterCalendar.get_from_exchange: [res, ex, cty], the result and the caches after it.
get_from_exchange(exchange_code, exs, ctys) ==
    LET key == norm_key(exchange_code) IN
    IF key \in DOMAIN exs
    THEN [res |-> Ok(exs[key]), ex |-> exs, cty |-> ctys]
    ELSE LET a == ExchangeCalendarAdapter(key) IN
         IF a.ok
         THEN [res |-> a, ex |-> exs @@ (key :> a.value), cty |-> ctys]
         ELSE [res |-> Raise("UnknownExchangeError", "Unknown/unsupported exchange code",
                             exchange_code),
               ex |-> exs, cty |-> ctys]

\* BetterCalendar.get_from_country
get_from_country(iso_code, exs, ctys) ==
    LET key == norm_key(iso_code) IN
    IF key \in DOMAIN ctys
    THEN [res |-> Ok(ctys[key]), ex |-> exs, cty |-> ctys]
    ELSE LET a == CountryCalendarAdapter(key) IN
         IF a.ok
         THEN [res |-> a, ex |-> exs, cty |-> ctys @@ (key :> a.value)]
         ELSE IF a.error = "UnknownCountryError"
         THEN [res |-> a, ex |-> exs, cty |-> ctys]
         ELSE [res |-> Raise("UnknownCountryError", "Unknown/unsupported country ISO", iso_code),
               ex |-> exs, cty |-> ctys]

\* BetterCalendar.get_from_rfr
get_from_rfr(ticker, exs, ctys) ==
    LET key == norm_rfr_key(ticker) IN
    IF key \in DOMAIN default_rfr_map
    THEN [res |-> Ok(default_rfr_map[key]), ex |-> exs, cty |-> ctys]
    ELSE [res |-> Raise("UnknownRfrError", "Unknown/unsupported RFR ticker", ticker),
          ex |-> exs, cty |-> ctys]

\* BetterCalendar._resolve(kind, code)
resolve(kind, code, exs, ctys) ==
    CASE kind = "exchange" -> get_from_exchange(code, exs, ctys)
      [] kind = "country" -> get_from_country(code, exs, ctys)
      [] kind = "rfr" -> get_from_rfr(code, exs, ctys)
      [] OTHER -> [res |-> Raise("CalendarError", "Unknown kind", kind),
                   ex |-> exs, cty |-> ctys]

\* The loop of combine: each entry is resolved in order; an adapter created
\* on the way stays in the hub when a later entry fails.
RECURSIVE resolve_all(_, _, _)
resolve_all(entries, exs, ctys) ==
    IF entries = << >> THEN [res |-> Ok(<< >>), ex |-> exs, cty |-> ctys]
    ELSE LET first == resolve(Head(entries)[1], Head(entries)[2], exs, ctys) IN
         IF ~first.res.ok THEN first
         ELSE LET rest == resolve_all(Tail(entries), first.ex, first.cty) IN
              IF ~rest.res.ok THEN rest
              ELSE [res |-> Ok(<<first.res.value>> \o rest.res.value),
                    ex |-> rest.ex, cty |-> rest.cty]

\* BetterCalendar.combine(entries, mode)
combine(entries, mode, exs, ctys) ==
    LET cals == resolve_all(entries, exs, ctys) IN
    IF ~cals.res.ok THEN cals
    ELSE [res |-> CombinedCalendarAdapter(cals.res.value, mode),
          ex |-> cals.ex, cty |-> cals.cty]

\* A variant of with_overrides that puts the overridden calendar into the
\* hub's cache in place of its base.
with_overrides_registering(kind, code, add_holidays, remove_holidays, exs, ctys) ==
    LET base_cal == resolve(kind, code, exs, ctys)
        or_empty(o) == IF o = None THEN << >> ELSE Get(o)
        key == norm_key(code)
        made == [type |-> "override", base_calendar |-> base_cal.res.value,
                 add_holidays |-> or_empty(add_holidays),
                 remove_holidays |-> or_empty(remove_holidays)]
    IN  IF ~base_cal.res.ok THEN base_cal
        ELSE [res |-> Ok(made),
              ex |-> IF kind = "exchange" THEN [base_cal.ex EXCEPT ![key] = made]
                     ELSE base_cal.ex,
              cty |-> IF kind = "country" THEN [base_cal.cty EXCEPT ![key] = made]
                      ELSE base_cal.cty]

\* BetterCalendar.with_overrides(kind, code, add_holidays, remove_holidays):
\* a list not given is the empty one.
with_overrides(kind, code, add_holidays, remove_holidays, exs, ctys) ==
    LET base_cal == resolve(kind, code, exs, ctys)
        or_empty(o) == IF o = None THEN << >> ELSE Get(o)
    IN  IF ~base_cal.res.ok THEN base_cal
        ELSE [res |-> OverrideCalendarAdapter(base_cal.res.value, or_empty(add_holidays),
                                              or_empty(remove_holidays)),
              ex |-> base_cal.ex, cty |-> base_cal.cty]

\* The loop of add_business_days: one day at a time in the direction of
\* step, counting the business days met.
RECURSIVE add_business_days_walk(_, _, _, _)
add_business_days_walk(cal, cur, step, remaining) ==
    IF remaining = 0 THEN cur
    ELSE LET nxt == cur + step IN
         add_business_days_walk(cal, nxt, step,
             IF adapter_is_business_day(cal, nxt) THEN remaining - 1 ELSE remaining)

\* A variant of add_business_days that counts the day it starts from.
add_business_days_counting_day(kind, code, d, n, exs, ctys) ==
    LET cal == resolve(kind, code, exs, ctys)
        step == IF n >= 0 THEN 1 ELSE -1
        remaining == IF n >= 0 THEN n ELSE -n
    IN  IF ~cal.res.ok THEN cal
        ELSE [res |-> Ok(IF remaining = 0 THEN d
                         ELSE add_business_days_walk(cal.res.value, d - step, step, remaining)),
              ex |-> cal.ex, cty |-> cal.cty]

\* BetterCalendar.add_business_days(kind, code, d, n)
add_business_days(kind, code, d, n, exs, ctys) ==
    LET cal == resolve(kind, code, exs, ctys)
        step == IF n >= 0 THEN 1 ELSE -1
        remaining == IF n >= 0 THEN n ELSE -n
    IN  IF ~cal.res.ok THEN cal
        ELSE [res |-> Ok(add_business_days_walk(cal.res.value, d, step, remaining)),
              ex |-> cal.ex, cty |-> cal.cty]

\* BetterCalendar.next_business_day and prev_business_day
hub_next_business_day(kind, code, d, exs, ctys) == add_business_days(kind, code, d, 1, exs, ctys)
hub_prev_business_day(kind, code, d, exs, ctys) == add_business_days(kind, code, d, -1, exs, ctys)

\* The (kind, code) pairs and the entry lists a caller may give: the
\* sub-lists of EntryOrder.
KindArgs == {"exchange", "country", "rfr", "index"}
EntryOrder == << <<"exchange", "XPAR">>, <<"country", "FR">>, <<"rfr", "ESTR">>,
                 <<"country", "ZZ">> >>
SubList(l, S) ==
    LET idx == SelectSeq([j \in 1..Len(l) |-> j], LAMBDA j : j \in S)
    IN  [j \in 1..Len(idx) |-> l[idx[j]]]
EntryLists == {SubList(EntryOrder, S) : S \in SUBSET (1..Len(EntryOrder))}
ModeArgs == {"union", "intersection", "xor"}

NoCalendar ==
    /\ status = "absent"
    /\ calendar_code = << >>
    /\ multiple_calendars_mode = "none"
    /\ start_date = 0
    /\ end_date = 0
    /\ days = << >>
    /\ business_mask = << >>
    /\ business_position = << >>

\* BetterCalendar.default(): no exchange or country adapter yet.
HubInit ==
    /\ NoCall
    /\ NoCalendar
    /\ hub = "ok"
    /\ world \in Worlds
    /\ installed = Libraries
    /\ ex = << >>
    /\ cty = << >>
    /\ adapter = << >>

\* BetterCalendar.default() with the libraries' data of the first days of
\* 2026: the first of January is a legal holiday in France and no session
\* of XPAR nor a TARGET business day; the days after it that are weekdays
\* are open everywhere.
HubInitNewYear2026 ==
    /\ NoCall
    /\ NoCalendar
    /\ hub = "ok"
    /\ world = [k \in KnownMics \cup KnownIsos \cup {"TARGET"} |->
                  IF k \in KnownIsos THEN {HubStart}
                  ELSE {d \in HubDates \ {HubStart} : py_weekday(d) < 5}]
    /\ installed = Libraries
    /\ ex = << >>
    /\ cty = << >>
    /\ adapter = << >>

\* BetterCalendar(exchange_adapters, country_adapters, rfr_adapters) given
\* an adapter for every known exchange and country.
HubInitRegistered ==
    /\ NoCall
    /\ NoCalendar
    /\ hub = "ok"
    /\ world \in Worlds
    /\ installed = Libraries
    /\ ex = [k \in KnownMics |-> [type |-> "exchange", code |-> k]]
    /\ cty = [k \in KnownIsos |-> [type |-> "country", code |-> k]]
    /\ adapter = << >>

\* hub.get_from_exchange / get_from_country / get_from_rfr, by kind.
Call_get ==
    /\ pc = "idle"
    /\ hub = "ok"
    /\ \E kind \in KindArgs :
       \E code \in HubCodeArgs(kind) :
          LET r == resolve(kind, code, ex, cty) IN
          /\ ex' = r.ex
          /\ cty' = r.cty
          /\ adapter' = IF r.res.ok THEN r.res.value ELSE adapter
          /\ Returned("get", [kind |-> kind, code |-> code], r.res)
    /\ UNCHANGED <<hub, world, installed>>
    /\ UNCHANGED calendarVars

Call_combine ==
    /\ pc = "idle"
    /\ hub = "ok"
    /\ \E entries \in EntryLists, mode \in ModeArgs :
          LET r == combine(entries, mode, ex, cty) IN
          /\ ex' = r.ex
          /\ cty' = r.cty
          /\ adapter' = IF r.res.ok THEN r.res.value ELSE adapter
          /\ Returned("combine", [entries |-> entries, mode |-> mode], r.res)
    /\ UNCHANGED <<hub, world, installed>>
    /\ UNCHANGED calendarVars

\* The holiday lists a caller may give: none, or dates of HubDates in order.
HolidayArgs ==
    {None} \cup {Some(SubList(daterange(HubStart, HubStart + HubDays - 1), S)) :
                    S \in SUBSET (1..HubDays)}

Call_with_overrides ==
    /\ pc = "idle"
    /\ hub = "ok"
    /\ \E kind \in KindArgs :
       \E code \in HubCodeArgs(kind) :
       \E add_holidays \in HolidayArgs, remove_holidays \in HolidayArgs :
          LET r == with_overrides(kind, code, add_holidays, remove_holidays, ex, cty) IN
          /\ ex' = r.ex
          /\ cty' = r.cty
          /\ adapter' = IF r.res.ok THEN r.res.value ELSE adapter
          /\ Returned("with_overrides",
                      [kind |-> kind, code |-> code, add_holidays |-> add_holidays,
                       remove_holidays |-> remove_holidays], r.res)
    /\ UNCHANGED <<hub, world, installed>>
    /\ UNCHANGED calendarVars

\* The dates a caller starts a walk from: the day before HubDates, HubDates
\* and the two days after them (a Saturday and a Sunday at HubDays = 2).
WalkDates == (HubStart - 1)..(HubStart + HubDays + 1)
HubOffsetArgs == (0 - MaxOffset)..MaxOffset

Call_add_business_days ==
    /\ pc = "idle"
    /\ hub = "ok"
    /\ \E kind \in KindArgs :
       \E code \in HubCodeArgs(kind) :
       \E d \in WalkDates, n \in HubOffsetArgs :
          LET r == add_business_days(kind, code, d, n, ex, cty) IN
          /\ ex' = r.ex
          /\ cty' = r.cty
          /\ Returned("add_business_days", [kind |-> kind, code |-> code, d |-> d, n |-> n],
                      r.res)
    /\ UNCHANGED <<hub, world, installed, adapter>>
    /\ UNCHANGED calendarVars

Call_hub_next_business_day ==
    /\ pc = "idle"
    /\ hub = "ok"
    /\ \E kind \in KindArgs :
       \E code \in HubCodeArgs(kind) :
       \E d \in WalkDates :
          LET r == hub_next_business_day(kind, code, d, ex, cty) IN
          /\ ex' = r.ex
          /\ cty' = r.cty
          /\ Returned("hub.next_business_day", [kind |-> kind, code |-> code, d |-> d], r.res)
    /\ UNCHANGED <<hub, world, installed, adapter>>
    /\ UNCHANGED calendarVars

Call_hub_prev_business_day ==
    /\ pc = "idle"
    /\ hub = "ok"
    /\ \E kind \in KindArgs :
       \E code \in HubCodeArgs(kind) :
       \E d \in WalkDates :
          LET r == hub_prev_business_day(kind, code, d, ex, cty) IN
          /\ ex' = r.ex
          /\ cty' = r.cty
          /\ Returned("hub.prev_business_day", [kind |-> kind, code |-> code, d |-> d], r.res)
    /\ UNCHANGED <<hub, world, installed, adapter>>
    /\ UNCHANGED calendarVars

Call_adapter_is_business_day ==
    /\ pc = "idle"
    /\ hub = "ok"
    /\ adapter # << >>
    /\ \E d \in HubDates :
          Returned("adapter.is_business_day", [d |-> d], Ok(adapter_is_business_day(adapter, d)))
    /\ UNCHANGED hubVars
    /\ UNCHANGED calendarVars

Call_adapter_business_days ==
    /\ pc = "idle"
    /\ hub = "ok"
    /\ adapter # << >>
    /\ \E s \in HubDates, e \in HubDates :
          Returned("adapter.business_days", [start |-> s, end |-> e],
                   Ok(adapter_business_days(adapter, s, e)))
    /\ UNCHANGED hubVars
    /\ UNCHANGED calendarVars

Call_adapter_holidays ==
    /\ pc = "idle"
    /\ hub = "ok"
    /\ adapter # << >>
    /\ \E s \in HubDates, e \in HubDates :
          Returned("adapter.holidays", [start |-> s, end |-> e],
                   Ok(adapter_holidays(adapter, s, e)))
    /\ UNCHANGED hubVars
    /\ UNCHANGED calendarVars

(***************************************************************************)
(* Construction of a Calendar as a call.                                   *)
(***************************************************************************)
\* The code lists a caller may give: up to MaxCodes codes.
CodeLists == UNION {[1..k -> CodeArgs] : k \in 0..MaxCodes}

\* The external providers the codes of a list name.
UsedProviders(codes) ==
    {CALENDAR_CODES[c][2] : c \in {x \in Range(codes) \cap DOMAIN CALENDAR_CODES :
                                      CALENDAR_CODES[x][1] # "weekend"}}

\* The arguments of Calendar(...) are chosen; nothing is built yet.
InitNew ==
    /\ NoCall
    /\ NoHub
    /\ status = "new"
    /\ calendar_code \in CodeLists
    /\ multiple_calendars_mode \in ModeArgs
    /\ start_date = DefaultStart
    /\ end_date \in UniverseEnds
    /\ days = << >>
    /\ business_mask = << >>
    /\ business_position = << >>

\* Calendar(calendar_code, start_date, end_date, multiple_calendars_mode=...):
\* the libraries answer (one not asked is left out), the object is built or
\* the constructor raises.
Call_Calendar ==
    /\ pc = "idle"
    /\ status = "new"
    /\ \E ext \in ExternalAnswers(universe_days(start_date, end_date)) :
          LET c == Calendar_init(calendar_code, multiple_calendars_mode,
                                 start_date, end_date, ext) IN
          /\ \A p \in ExternalProviders \ UsedProviders(calendar_code) :
                ext[p] = [installed |-> FALSE, business |-> {}]
          /\ status' = IF c.ok THEN "ok" ELSE "failed"
          /\ days' = IF c.ok THEN c.value.days ELSE days
          /\ business_mask' = IF c.ok THEN c.value.mask ELSE business_mask
          /\ business_position' = IF c.ok THEN c.value.position ELSE business_position
          /\ Returned("Calendar", [ext |-> ext], IF c.ok THEN Ok("Calendar") ELSE c)
    /\ UNCHANGED <<calendar_code, multiple_calendars_mode, start_date, end_date>>
    /\ UNCHANGED hubVars

NextRange ==
    \/ Call_override
    \/ Call_business_days
    \/ Call_non_business_days
    \/ Call_get
    \/ Call_combine
    \/ Call_adapter_business_days
    \/ Call_adapter_holidays
    \/ Return

\* Range queries of a Calendar, or of the adapters of a hub.
SpecRange == (Init \/ HubInitRegistered) /\ [][NextRange]_vars

NextCombine ==
    \/ Call_Calendar
    \/ Call_business_days
    \/ Call_combine
    \/ Call_adapter_is_business_day
    \/ Call_adapter_business_days
    \/ Return

\* Calendars built from several codes, or adapters combined by a hub.
SpecCombine == (InitNew \/ HubInitRegistered) /\ [][NextCombine]_vars

NextLookup ==
    \/ Call_Calendar
    \/ Call_get
    \/ Return

\* Identifiers looked up by the Calendar constructor, or by a default hub.
SpecLookup == (InitNew \/ HubInit) /\ [][NextLookup]_vars

NextOffset ==
    \/ Call_override
    \/ Call_offset_business_days
    \/ Call_next_business_day
    \/ Call_previous_business_day
    \/ Return

\* Offsetting by business days, on a calendar that may have been overridden.
SpecOffset == Init /\ [][NextOffset]_vars

NextCount ==
    \/ Call_override
    \/ Call_days_between
    \/ Return

\* Counting days, on a calendar that may have been overridden.
SpecCount == Init /\ [][NextCount]_vars

NextScheduleBusiness ==
    \/ Call_schedule_business
    \/ Return

\* Schedules of business days.
SpecScheduleBusiness ==
    (InitSchedule \/ InitJanuary2026) /\ [][NextScheduleBusiness]_vars

NextScheduleCalendar ==
    \/ Call_override
    \/ Call_schedule_calendar
    \/ Return

\* Schedules of calendar days, on a calendar that may have been overridden.
SpecScheduleCalendar == InitScheduleDefault /\ [][NextScheduleCalendar]_vars

NextWeekend ==
    \/ Call_is_business
    \/ Call_business_days
    \/ Return

\* Weekend-only calendars, never overridden.
SpecWeekend == (InitScheduleDefault \/ InitJanuary2026) /\ [][NextWeekend]_vars

\* No Calendar and no hub: the parser is called on its own.
\* BetterCalendar.default() where exchange_calendars or workalendar may not
\* be installed.
HubInitLibraries ==
    /\ NoCall
    /\ NoCalendar
    /\ hub = "ok"
    /\ world \in Worlds
    /\ installed \in SUBSET Libraries
    /\ ex = << >>
    /\ cty = << >>
    /\ adapter = << >>

NextDependencies ==
    \/ Call_Calendar
    \/ Call_get
    \/ Return

\* Construction of a Calendar, and the getters of a hub, with each external
\* library installed or not.
SpecDependencies == (InitNew \/ HubInitLibraries) /\ [][NextDependencies]_vars

\* with_overrides called by a caller that holds no adapter yet.
Call_first_with_overrides ==
    /\ adapter = << >>
    /\ Call_with_overrides

NextOverrides ==
    \/ Call_first_with_overrides
    \/ Call_adapter_is_business_day
    \/ Call_adapter_business_days
    \/ Call_adapter_holidays
    \/ Return

\* A caller asks a hub for an overridden calendar until it has one, then
\* queries it.
SpecOverrides == HubInit /\ [][NextOverrides]_vars

NextWalk ==
    \/ Call_add_business_days
    \/ Call_hub_next_business_day
    \/ Call_hub_prev_business_day
    \/ Return

\* The business-day walks of a hub.
SpecWalk == HubInit /\ [][NextWalk]_vars

NextFrame ==
    \/ Call_override
    \/ Call_is_business
    \/ Call_business_days
    \/ Call_non_business_days
    \/ Call_days_between
    \/ Call_offset_business_days
    \/ Call_next_business_day
    \/ Call_previous_business_day
    \/ Call_schedule_business
    \/ Call_schedule_calendar
    \/ Return

\* Every operation of a Calendar, in any order.
SpecFrame == Init /\ [][NextFrame]_vars

\* ISO weeks and weekly schedules around the turn of a year.
SpecIsoWeek ==
    InitNewYear /\ [][Call_week_number \/ Call_schedule_business \/ Return]_vars

\* Getters, overrides and combinations of one hub, in any order.
SpecShared ==
    HubInitNewYear2026
        /\ [][Call_get \/ Call_with_overrides \/ Call_combine \/ Return]_vars

InitParser ==
    /\ NoCall
    /\ NoHub
    /\ NoCalendar

Call_parse_date_str ==
    /\ pc = "idle"
    /\ status = "absent"
    /\ hub = "absent"
    /\ \E s \in DateStrings, dayfirst \in BOOLEAN :
          Returned("_parse_date_str", [s |-> s, dayfirst |-> dayfirst],
                   parse_date_str(s, dayfirst))
    /\ UNCHANGED calendarVars
    /\ UNCHANGED hubVars

NextParser ==
    \/ Call_parse_date_str
    \/ Return

\* The date-string parser on its own.
SpecParser == InitParser /\ [][NextParser]_vars

(***************************************************************************)
(* Properties.                                                             *)
(***************************************************************************)
\* The mask at a date of the universe.
MaskAt(d) == business_mask[(d - start_date) + 1]

OverrideReturned == status = "ok" /\ pc = "returned" /\ op = "override" /\ result.ok
AddsGiven == ListDates(args.new_business_days)
RemovesGiven == ListDates(args.new_non_business_days)

\* C1: after override(new_business_days = A, new_non_business_days = R) with
\* A and R disjoint and inside the universe, every date of A is a business
\* day and every date of R is a non-business day.
C1_OverrideForceSets ==
    (OverrideReturned /\ AddsGiven \cap RemovesGiven = {})
        => /\ \A d \in AddsGiven : MaskAt(d)
           /\ \A d \in RemovesGiven : ~MaskAt(d)

\* C2: a date given in both lists of one override call is a business day
\* after the call, whatever the mask said before.
C2_BusinessWinsOnConflict ==
    OverrideReturned => \A d \in AddsGiven \cap RemovesGiven : MaskAt(d)

InsideUniverse(d) == start_date <= d /\ d <= end_date
RangeStart == IF args.start_date = None THEN start_date ELSE Get(args.start_date)
RangeEnd == IF args.end_date = None THEN end_date ELSE Get(args.end_date)

RangeReturned ==
    /\ status = "ok"
    /\ pc = "returned"
    /\ op \in {"business_days", "non_business_days"}
    /\ InsideUniverse(RangeStart)
    /\ InsideUniverse(RangeEnd)
    /\ RangeStart <= RangeEnd

\* The two lists of the range of the last call: the one it returned, and the
\* other one as the Calendar answers it in the same state.
BusinessOfRange ==
    IF op = "business_days" THEN result
    ELSE business_days(args.start_date, args.end_date)
NonBusinessOfRange ==
    IF op = "non_business_days" THEN result
    ELSE non_business_days(args.start_date, args.end_date)

AdapterRangeReturned ==
    /\ hub = "ok"
    /\ pc = "returned"
    /\ op \in {"adapter.business_days", "adapter.holidays"}
AdapterBusinessOfRange ==
    IF op = "adapter.business_days" THEN result.value
    ELSE adapter_business_days(adapter, args.start, args.end)
AdapterHolidaysOfRange ==
    IF op = "adapter.holidays" THEN result.value
    ELSE adapter_holidays(adapter, args.start, args.end)

\* C3: for every range [s, e] inside the universe with s <= e,
\* business_days(s, e) and non_business_days(s, e) succeed, are disjoint,
\* and together are exactly the days s..e; the same holds of business_days
\* and holidays of every hub adapter.
C3_RangePartition ==
    /\ RangeReturned =>
          /\ BusinessOfRange.ok
          /\ NonBusinessOfRange.ok
          /\ Range(BusinessOfRange.value) \cap Range(NonBusinessOfRange.value) = {}
          /\ Range(BusinessOfRange.value) \cup Range(NonBusinessOfRange.value)
                = RangeStart..RangeEnd
    /\ AdapterRangeReturned =>
          /\ Range(AdapterBusinessOfRange) \cap Range(AdapterHolidaysOfRange) = {}
          /\ Range(AdapterBusinessOfRange) \cup Range(AdapterHolidaysOfRange)
                = args.start..args.end

\* A range with a business day and a non-business day was asked for.
C3_Witness ==
    /\ RangeReturned
    /\ op = "business_days"
    /\ Len(BusinessOfRange.value) >= 1
    /\ Len(NonBusinessOfRange.value) >= 1
    /\ RangeStart < RangeEnd

\* The business days of the calendar, read off the mask.
BusinessSet == {days[j] : j \in {i \in 1..Len(days) : business_mask[i]}}
BusinessAfter(d) == {b \in BusinessSet : b > d}
BusinessBefore(d) == {b \in BusinessSet : b < d}

OffsetReturned ==
    /\ status = "ok"
    /\ pc = "returned"
    /\ op \in {"offset_business_days", "next_business_day", "previous_business_day"}
OffsetN ==
    IF op = "next_business_day" THEN 1
    ELSE IF op = "previous_business_day" THEN 0 - 1
    ELSE args.n

\* C4: for d inside the universe, offset_business_days(d, 0) is d, also
\* when d is not a business day; for n > 0 the result is the n-th business
\* day strictly after d, for n < 0 the |n|-th strictly before d, whenever
\* that day exists; next_business_day and previous_business_day are the
\* offsets by +1 and -1.
C4_OffsetSemantics ==
    (OffsetReturned /\ InsideUniverse(args.day)) =>
        /\ OffsetN = 0 => result = Ok(args.day)
        /\ (OffsetN > 0 /\ Cardinality(BusinessAfter(args.day)) >= OffsetN) =>
              /\ result.ok
              /\ result.value \in BusinessAfter(args.day)
              /\ Cardinality({b \in BusinessAfter(args.day) : b <= result.value}) = OffsetN
        /\ (OffsetN < 0 /\ Cardinality(BusinessBefore(args.day)) >= 0 - OffsetN) =>
              /\ result.ok
              /\ result.value \in BusinessBefore(args.day)
              /\ Cardinality({b \in BusinessBefore(args.day) : b >= result.value}) = 0 - OffsetN

\* The second business day after a non-business day was returned.
C4_Witness ==
    /\ OffsetReturned
    /\ op = "offset_business_days"
    /\ args.n = 2
    /\ InsideUniverse(args.day)
    /\ ~MaskAt(args.day)
    /\ result.ok

\* C5: offset_business_days(d, n) fails when d is outside the universe and
\* when fewer than |n| business days lie strictly beyond d in the direction
\* of n; every date it returns lies inside [start, end].
C5_OffsetEdges ==
    OffsetReturned =>
        /\ ~InsideUniverse(args.day) => ~result.ok
        /\ (OffsetN > 0 /\ Cardinality(BusinessAfter(args.day)) < OffsetN) => ~result.ok
        /\ (OffsetN < 0 /\ Cardinality(BusinessBefore(args.day)) < 0 - OffsetN) => ~result.ok
        /\ result.ok => InsideUniverse(result.value)

\* An offset of two from a day with one business day left after it failed.
C5_Witness ==
    /\ OffsetReturned
    /\ op = "offset_business_days"
    /\ args.n = 2
    /\ InsideUniverse(args.day)
    /\ Cardinality(BusinessAfter(args.day)) = 1
    /\ ~result.ok

CountReturned ==
    /\ status = "ok"
    /\ pc = "returned"
    /\ op = "days_between"
CountStart == IF args.start_date = None THEN start_date ELSE Get(args.start_date)
CountEnd == IF args.end_date = None THEN end_date ELSE Get(args.end_date)

\* The days the count is about: those of [s, e] of the asked type, without
\* an excluded start and without an excluded end.
CountedDays ==
    {d \in CountStart..CountEnd :
        /\ args.type = "business" => d \in BusinessSet
        /\ args.inclusive \in {"right", "none"} => d # CountStart
        /\ args.inclusive \in {"left", "none"} => d # CountEnd}

\* C7: for s <= e inside the universe, days_between returns the number of
\* days of [s, e] (all of them for type calendar, the business days for
\* type business) without an excluded start and an excluded end; it is
\* never negative; on [D, D] in calendar mode "both" gives 1 and "none" 0.
C7_DaysBetweenCount ==
    (/\ CountReturned
     /\ InsideUniverse(CountStart)
     /\ InsideUniverse(CountEnd)
     /\ CountStart <= CountEnd
     /\ args.type \in {"calendar", "business"}
     /\ args.inclusive \in {"both", "left", "right", "none"}) =>
        /\ result = Ok(Cardinality(CountedDays))
        /\ result.value >= 0
        /\ (args.type = "calendar" /\ CountStart = CountEnd) =>
              /\ args.inclusive = "both" => result.value = 1
              /\ args.inclusive = "none" => result.value = 0

\* A one-day range was counted with both ends excluded.
C7_Witness ==
    /\ CountReturned
    /\ InsideUniverse(CountStart)
    /\ CountStart = CountEnd
    /\ args.inclusive = "none"
    /\ args.type \in {"calendar", "business"}
    /\ result = Ok(0)

Constructed ==
    /\ pc = "returned"
    /\ op = "Calendar"

\* The mask of the k-th code alone, over the same universe and with the
\* same answers of the external libraries.
ComponentMask(k) ==
    build_mask(CALENDAR_CODES[calendar_code[k]], days, args.ext).value
ComponentDays(k) ==
    {days[j] : j \in {i \in 1..Len(days) : ComponentMask(k)[i]}}

CombinedAsked ==
    /\ hub = "ok"
    /\ pc = "returned"
    /\ op \in {"adapter.is_business_day", "adapter.business_days"}
    /\ adapter # << >>
    /\ adapter.type = "combined"

\* C9: a calendar built from several codes has, day by day, the OR of the
\* codes' masks in union mode and their AND in intersection mode, so its
\* business days are the union / intersection of the codes' business days;
\* with one code it has that code's mask. A combined adapter of the hub
\* answers with the OR / AND of its members' answers.
C9_CombinationLaws ==
    /\ (Constructed /\ status = "ok") =>
          LET codes == 1..Len(calendar_code)
              union == multiple_calendars_mode = "union"
          IN
          /\ \A j \in 1..Len(days) :
                business_mask[j] =
                    IF union THEN \E k \in codes : ComponentMask(k)[j]
                             ELSE \A k \in codes : ComponentMask(k)[j]
          /\ BusinessSet =
                IF union THEN UNION {ComponentDays(k) : k \in codes}
                         ELSE {d \in Range(days) : \A k \in codes : d \in ComponentDays(k)}
          /\ Len(days) > 0 => Range(business_days(None, None).value) = BusinessSet
          /\ Len(calendar_code) = 1 => business_mask = ComponentMask(1)
    /\ CombinedAsked =>
          LET members == 1..Len(adapter.calendars)
              union == adapter.mode = "union"
          IN
          /\ op = "adapter.is_business_day" =>
                result.value =
                    IF union
                    THEN \E k \in members :
                            adapter_is_business_day(adapter.calendars[k], args.d)
                    ELSE \A k \in members :
                            adapter_is_business_day(adapter.calendars[k], args.d)
          /\ op = "adapter.business_days" =>
                Range(result.value) =
                    IF union
                    THEN UNION {Range(adapter_business_days(adapter.calendars[k],
                                        args.start, args.end)) : k \in members}
                    ELSE {d \in args.start..args.end : \A k \in members :
                            d \in Range(adapter_business_days(adapter.calendars[k],
                                            args.start, args.end))}

\* A calendar was built as the intersection of two codes with different masks.
C9_Witness ==
    /\ Constructed
    /\ status = "ok"
    /\ Len(calendar_code) = 2
    /\ multiple_calendars_mode = "intersection"
    /\ ComponentDays(1) \ ComponentDays(2) # {}
    /\ ComponentDays(2) \ ComponentDays(1) # {}
    /\ BusinessSet # {}

UnknownCodes == {k \in 1..Len(calendar_code) : calendar_code[k] \notin DOMAIN CALENDAR_CODES}
FirstUnknown == CHOOSE k \in UnknownCodes : \A j \in UnknownCodes : k <= j

\* The codes before the first unknown one all got their masks.
ReachedFirstUnknown ==
    \A k \in 1..(FirstUnknown - 1) :
        build_mask(CALENDAR_CODES[calendar_code[k]],
                   universe_days(start_date, end_date), args.ext).ok

Unregistered(kind, code) ==
    CASE kind = "exchange" -> norm_key(code) \notin KnownMics
      [] kind = "country" -> norm_key(code) \notin KnownIsos
      [] kind = "rfr" -> norm_rfr_key(code) \notin DOMAIN default_rfr_map
      [] OTHER -> FALSE

UnknownErrorOf(kind) ==
    CASE kind = "exchange" -> "UnknownExchangeError"
      [] kind = "country" -> "UnknownCountryError"
      [] kind = "rfr" -> "UnknownRfrError"

\* C10: constructing a Calendar with an unknown code among its codes fails
\* and leaves no calendar; the error raised for the unknown code names it.
\* A hub getter asked for an unknown exchange, country or RFR ticker fails
\* with the error of that kind naming the code, and registers nothing.
C10_UnknownIdentifierFails ==
    /\ (Constructed /\ UnknownCodes # {}) =>
          /\ ~result.ok
          /\ status = "failed"
          /\ business_mask = << >>
          /\ business_position = << >>
          /\ ReachedFirstUnknown =>
                /\ result.error = "ValueError"
                /\ result.msg = "Unknown calendar code"
                /\ result.about = calendar_code[FirstUnknown]
    /\ (/\ hub = "ok"
        /\ pc = "returned"
        /\ op = "get"
        /\ Unregistered(args.kind, args.code)) =>
          /\ ~result.ok
          /\ result.error = UnknownErrorOf(args.kind)
          /\ result.about \in {args.code, norm_key(args.code)}
          /\ norm_key(args.code) \notin DOMAIN ex \cup DOMAIN cty

\* A Calendar was asked for a known code followed by ZZ_NOPE.
C10_Witness ==
    /\ Constructed
    /\ Len(calendar_code) = 2
    /\ calendar_code[1] = "FR"
    /\ calendar_code[2] = "ZZ_NOPE"
    /\ ~result.ok
    /\ result.about = "ZZ_NOPE"

ValidModes == {"union", "intersection"}
CalendarErrors ==
    {"CalendarError", "UnknownExchangeError", "UnknownCountryError", "UnknownRfrError",
     "MissingDependencyError"}

\* Every code is known and its provider answered.
AllCodesBuilt ==
    /\ UnknownCodes = {}
    /\ \A k \in 1..Len(calendar_code) :
          build_mask(CALENDAR_CODES[calendar_code[k]],
                     universe_days(start_date, end_date), args.ext).ok

CombineReturned ==
    /\ hub = "ok"
    /\ pc = "returned"
    /\ op = "combine"

\* Every entry of the last combine names a registered calendar.
AllEntriesKnown ==
    \A k \in 1..Len(args.entries) :
        /\ args.entries[k][1] \in {"exchange", "country", "rfr"}
        /\ ~Unregistered(args.entries[k][1], args.entries[k][2])

NormalisedCode(code) ==
    CASE code = "fr" -> "FR"
      [] OTHER -> code

\* C12: a code that differs from a registered identifier only by letter
\* case or whitespace is looked up as that identifier, so constructing a
\* Calendar from such codes never fails with "Unknown calendar code".
C12_LookupNormalised ==
    (/\ Constructed
     /\ \A k \in 1..Len(calendar_code) :
            NormalisedCode(calendar_code[k]) \in DOMAIN CALENDAR_CODES) =>
        ~(~result.ok /\ result.msg = "Unknown calendar code")

ScheduleReturned(name) ==
    /\ status = "ok"
    /\ pc = "returned"
    /\ op = name
ScheduleStart == IF args.start_date = None THEN start_date ELSE Get(args.start_date)
ScheduleEnd == IF args.end_date = None THEN end_date ELSE Get(args.end_date)
ScheduleRangeValid ==
    /\ InsideUniverse(ScheduleStart)
    /\ InsideUniverse(ScheduleEnd)
    /\ ScheduleStart <= ScheduleEnd

\* The period a frequency token stands for, and the tokens that stand for one.
PeriodOf(frequency) ==
    CASE frequency \in {"W", "week", "Week", "WEEK"} -> "week"
      [] frequency \in {"M", "month", "Month", "MONTH"} -> "month"
      [] frequency \in {"Q", "quarter", "Quarter", "QUARTER"} -> "quarter"
      [] frequency \in {"S", "semester", "Semester", "SEMESTER"} -> "semester"
      [] frequency \in {"Y", "year", "Year", "YEAR"} -> "year"
      [] OTHER -> "none"
ValidFrequency(frequency) == PeriodOf(frequency) # "none"
ValidWhich(w) ==
    \/ IsStr(w, "first")
    \/ IsStr(w, "last")
    \/ IsStr(w, "all")
    \/ ("int" \in DOMAIN w /\ w.int >= 1)

\* The period of a day: the ISO year and ISO week, or the year with the
\* month, quarter or semester, or the year.
PeriodAt(frequency, d) ==
    CASE PeriodOf(frequency) = "week" -> <<iso_year(d), week(d)>>
      [] PeriodOf(frequency) = "month" -> <<year(d), month(d)>>
      [] PeriodOf(frequency) = "quarter" -> <<year(d), (month(d) + 2) \div 3>>
      [] PeriodOf(frequency) = "semester" -> <<year(d), IF month(d) <= 6 THEN 1 ELSE 2>>
      [] PeriodOf(frequency) = "year" -> <<year(d), 0>>

\* The reference selection from a set of candidate days: per period the
\* first, the last, all, or the n-th of the candidates in it.
ReferenceSelection(candidates, frequency, which) ==
    LET group(d) == {c \in candidates : PeriodAt(frequency, c) = PeriodAt(frequency, d)}
        rank(d) == Cardinality({c \in group(d) : c <= d})
    IN  {d \in candidates :
            \/ IsStr(which, "all")
            \/ IsStr(which, "first") /\ rank(d) = 1
            \/ IsStr(which, "last") /\ rank(d) = Cardinality(group(d))
            \/ "int" \in DOMAIN which /\ rank(d) = which.int}

\* C13: schedule_business over a range inside the universe, with a known
\* frequency and a valid which, returns exactly the reference selection
\* from the business days of the range, each once; monthly "last" over
\* January 2026 on the weekend-only calendar returns 2026-01-30 alone.
C13_ScheduleBusinessReference ==
    (/\ ScheduleReturned("schedule_business")
     /\ ScheduleRangeValid
     /\ ValidFrequency(args.frequency)
     /\ ValidWhich(args.which)) =>
        /\ result.ok
        /\ Range(result.value) =
              ReferenceSelection(BusinessSet \cap (ScheduleStart..ScheduleEnd),
                                 args.frequency, args.which)
        /\ Len(result.value) = Cardinality(Range(result.value))
        /\ (/\ <<ScheduleStart, ScheduleEnd>> = January2026
            /\ calendar_code = <<"DEFAULT">>
            /\ PeriodOf(args.frequency) = "month"
            /\ IsStr(args.which, "last")) =>
              result.value = <<20483>>

\* The last business day of each month of January 2026 was asked for.
C13_Witness ==
    /\ ScheduleReturned("schedule_business")
    /\ <<start_date, end_date>> = January2026
    /\ args.start_date = None
    /\ args.end_date = None
    /\ args.frequency = "M"
    /\ IsStr(args.which, "last")
    /\ result = Ok(<<20483>>)

\* C14: a schedule_business or schedule_calendar call with an unknown
\* frequency token, or with a which that is not first, last, all or an
\* integer >= 1, fails, whatever the range and the other arguments.
C14_BadScheduleArgumentsFail ==
    (/\ status = "ok"
     /\ pc = "returned"
     /\ op \in {"schedule_business", "schedule_calendar"}
     /\ ~ValidFrequency(args.frequency) \/ ~ValidWhich(args.which)) =>
        ~result.ok

\* The days of the asked range with the asked weekday number (all of them
\* when week_day is None).
WeekDayCandidates ==
    {d \in ScheduleStart..ScheduleEnd :
        args.week_day = None \/ weekday(d) = Get(args.week_day)}

\* C15: schedule_calendar over a range inside the universe, with a known
\* frequency and a valid which, returns exactly the reference selection
\* from the days of the range that have the asked weekday number, each
\* once, whatever the business mask is and whatever was overridden.
C15_ScheduleCalendarReference ==
    (/\ ScheduleReturned("schedule_calendar")
     /\ ScheduleRangeValid
     /\ ValidFrequency(args.frequency)
     /\ ValidWhich(args.which)) =>
        /\ result.ok
        /\ Range(result.value) =
              ReferenceSelection(WeekDayCandidates, args.frequency, args.which)
        /\ Len(result.value) = Cardinality(Range(result.value))

\* The last day of each period was asked for, and a non-business day is
\* among the two days returned.
C15_Witness ==
    /\ ScheduleReturned("schedule_calendar")
    /\ IsStr(args.which, "last")
    /\ args.week_day = None
    /\ result.ok
    /\ Len(result.value) = 2
    /\ \E j \in 1..2 : ~MaskAt(result.value[j])

\* C16: after an override call, the same call again gives the business_mask
\* and business_position the calendar already has.
C16_OverrideIdempotent ==
    OverrideReturned =>
        override(args.new_business_days, args.new_non_business_days)
            = Ok([mask |-> business_mask, position |-> business_position])

\* An override made a weekend day of the weekend-only calendar a business day.
C16_Witness ==
    /\ OverrideReturned
    /\ calendar_code = <<"DEFAULT">>
    /\ \E d \in AddsGiven : weekday(d) >= 6 /\ MaskAt(d)

\* The weekday number counted from a known Monday, 1970-01-05 (day 4).
WeekdayFromMonday(d) == ((d - 4) % 7) + 1

\* The days of January 2026 that fall on a Saturday or a Sunday.
January2026Weekend ==
    {January2026[1] + (k - 1) : k \in {3, 4, 10, 11, 17, 18, 24, 25, 31}}

\* C17: a weekend-only calendar marks a day as business exactly when its
\* weekday number, 1 = Monday .. 7 = Sunday, is 1..5; over January 2026 its
\* business_days() are the days of the month without the 3rd, 4th, 10th,
\* 11th, 17th, 18th, 24th, 25th and 31st, in ascending order.
C17_WeekendOnlyMask ==
    (status = "ok" /\ calendar_code = <<"DEFAULT">>) =>
        /\ \A j \in 1..Len(days) :
              business_mask[j] = (WeekdayFromMonday(days[j]) \in 1..5)
        /\ (pc = "returned" /\ op = "is_business" /\ result.ok) =>
              result.value = (WeekdayFromMonday(args.day) \in 1..5)
        /\ (/\ pc = "returned"
            /\ op = "business_days"
            /\ <<start_date, end_date>> = January2026
            /\ args.start_date = None
            /\ args.end_date = None) =>
              /\ result.ok
              /\ Range(result.value) =
                    (January2026[1]..January2026[2]) \ January2026Weekend
              /\ \A j \in 1..(Len(result.value) - 1) :
                    result.value[j] < result.value[j + 1]

\* business_days() of the weekend-only calendar of January 2026 returned
\* its 22 days.
C17_Witness ==
    /\ status = "ok"
    /\ calendar_code = <<"DEFAULT">>
    /\ <<start_date, end_date>> = January2026
    /\ pc = "returned"
    /\ op = "business_days"
    /\ args.start_date = None
    /\ args.end_date = None
    /\ result.ok
    /\ Len(result.value) = 22

ParseReturned == pc = "returned" /\ op = "_parse_date_str"
FourDigitGroups == {k \in 1..Len(args.s.groups) : args.s.groups[k].len = 4}

\* C18: the parser accepts a string only if it has exactly three runs of
\* digits, exactly one of them of four digits, and that one first or last;
\* year-first is read as year-month-day, year-last as day-month-year with
\* the day-first flag and month-day-year without it.
C18_ParserAcceptance ==
    (ParseReturned /\ result.ok) =>
        /\ Len(args.s.groups) = 3
        /\ Cardinality(FourDigitGroups) = 1
        /\ FourDigitGroups \subseteq {1, 3}
        /\ LET g == args.s.groups IN
           result.value =
              IF FourDigitGroups = {1}
              THEN [year |-> g[1].val, month |-> g[2].val, day |-> g[3].val]
              ELSE IF args.dayfirst
              THEN [year |-> g[3].val, month |-> g[2].val, day |-> g[1].val]
              ELSE [year |-> g[3].val, month |-> g[1].val, day |-> g[2].val]

\* The external providers of the codes asked for whose library is missing.
MissingProviders == {p \in UsedProviders(calendar_code) : ~args.ext[p].installed}

\* The library a kind of hub adapter imports.
LibraryOf(kind) ==
    CASE kind = "exchange" -> "exchange_calendars"
      [] kind = "country" -> "workalendar"
      [] OTHER -> "none"

\* C19: when the library behind a provider kind is missing, building a
\* calendar of that kind fails with an error other than the unknown-code
\* errors and no mask is built in its place, from the Calendar constructor
\* and from the hub getters get_from_exchange and get_from_country alike;
\* a calendar of the weekend-only DEFAULT code is still built.
C19_MissingLibraryDistinct ==
    /\ (/\ Constructed
        /\ UnknownCodes = {}
        /\ MissingProviders # {}) =>
          /\ ~result.ok
          /\ status = "failed"
          /\ business_mask = << >>
          /\ <<result.error, result.msg>> # <<"ValueError", "Unknown calendar code">>
    /\ (/\ Constructed
        /\ calendar_code = <<"DEFAULT">>
        /\ multiple_calendars_mode \in ValidModes) =>
          /\ result.ok
          /\ status = "ok"
    /\ (/\ hub = "ok"
        /\ pc = "returned"
        /\ op = "get"
        /\ args.kind \in {"exchange", "country"}
        /\ LibraryOf(args.kind) \notin installed) =>
          /\ ~result.ok
          /\ norm_key(args.code) \notin DOMAIN ex \cup DOMAIN cty
          /\ result.error # UnknownErrorOf(args.kind)

\* The caller holds a calendar built by with_overrides whose added and
\* removed holidays are disjoint.
Overridden ==
    /\ hub = "ok"
    /\ adapter # << >>
    /\ adapter.type = "override"
    /\ Range(adapter.add_holidays) \cap Range(adapter.remove_holidays) = {}

\* What the statement asks of the overridden calendar on a date.
OverriddenAnswer(d) ==
    \/ d \in Range(adapter.remove_holidays)
    \/ /\ d \notin Range(adapter.add_holidays)
       /\ adapter_is_business_day(adapter.base_calendar, d)

\* C20: a calendar built by with_overrides with disjoint added and removed
\* holidays answers is_business_day false on every added holiday, true on
\* every removed one and as its base calendar on every other date; its
\* business_days are the dates of the range with answer true, in order, and
\* its holidays the dates with answer false.
C20_OverridePredicate ==
    (Overridden /\ pc = "returned") =>
        /\ op = "adapter.is_business_day" =>
              /\ result.ok
              /\ result.value = OverriddenAnswer(args.d)
        /\ op = "adapter.business_days" =>
              /\ result.ok
              /\ result.value = SelectSeq(daterange(args.start, args.end),
                                          LAMBDA d : OverriddenAnswer(d))
        /\ op = "adapter.holidays" =>
              /\ result.ok
              /\ result.value = SelectSeq(daterange(args.start, args.end),
                                          LAMBDA d : ~OverriddenAnswer(d))

\* A removed holiday that the base calendar closes is answered as a
\* business day, next to an added holiday.
C20_Witness ==
    /\ Overridden
    /\ pc = "returned"
    /\ op = "adapter.is_business_day"
    /\ adapter.add_holidays # << >>
    /\ args.d \in Range(adapter.remove_holidays)
    /\ ~adapter_is_business_day(adapter.base_calendar, args.d)
    /\ result.value = TRUE

\* A walk of the hub returned a date; the calendar it walked on.
WalkReturned ==
    /\ hub = "ok"
    /\ pc = "returned"
    /\ op \in {"add_business_days", "hub.next_business_day", "hub.prev_business_day"}
    /\ result.ok
WalkCalendar == resolve(args.kind, args.code, ex, cty).res.value
WalkN ==
    CASE op = "add_business_days" -> args.n
      [] op = "hub.next_business_day" -> 1
      [] op = "hub.prev_business_day" -> -1
WalkBusinessDays(from, to) ==
    {x \in from..to : adapter_is_business_day(WalkCalendar, x)}

\* C21: add_business_days(kind, code, d, n) of the hub returns, for n >= 1,
\* a business day of the calendar after d with exactly n business days in
\* (d, result]; for n <= -1 a business day before d with exactly -n business
\* days in [result, d); for n = 0 the date d itself.  next_business_day and
\* prev_business_day are the cases n = 1 and n = -1, and on a country
\* calendar, which closes every Saturday and Sunday, they land on a weekday.
C21_HubWalk ==
    WalkReturned =>
        /\ WalkN = 0 => result.value = args.d
        /\ WalkN >= 1 =>
              /\ result.value > args.d
              /\ adapter_is_business_day(WalkCalendar, result.value)
              /\ Cardinality(WalkBusinessDays(args.d + 1, result.value)) = WalkN
        /\ WalkN <= -1 =>
              /\ result.value < args.d
              /\ adapter_is_business_day(WalkCalendar, result.value)
              /\ Cardinality(WalkBusinessDays(result.value, args.d - 1)) = 0 - WalkN
        /\ (op # "add_business_days" /\ args.kind = "country") =>
              py_weekday(result.value) < 5

\* add_business_days walks two business days back from a Sunday and passes
\* the Saturday, or a closed day of HubDates, on its way.
C21_Witness ==
    /\ WalkReturned
    /\ op = "add_business_days"
    /\ py_weekday(args.d) = 6
    /\ args.n = -2
    /\ result.value <= args.d - 3

\* C22: in every state of a Calendar, after construction and after any
\* override call that succeeded or failed, business_mask has one entry per
\* day of the universe and business_position is the strictly ascending
\* sequence of the indices whose entry is true.
C22_PositionMatchesMask ==
    status = "ok" =>
        /\ Len(business_mask) = Len(days)
        /\ \A j \in 1..(Len(business_position) - 1) :
              business_position[j] < business_position[j + 1]
        /\ Range(business_position) = {j - 1 : j \in {k \in 1..Len(business_mask) : business_mask[k]}}

\* An override call added a business day to a calendar that had one
\* already: business_position has the new index next to the old ones.
C22_Witness ==
    /\ OverrideReturned
    /\ Len(business_position) >= 2
    /\ \E d \in AddsGiven : weekday(d) >= 6 /\ (d - start_date) \in Range(business_position)
    /\ calendar_code = <<"DEFAULT">>

\* C23: override is the only mutator of a Calendar: a step of any other
\* operation, whether it returns or raises, leaves business_mask,
\* business_position and the universe's start, end and days as they were.
C23_OnlyOverrideMutates ==
    [][op' # "override" =>
          UNCHANGED <<business_mask, business_position, start_date, end_date, days>>]_vars

\* offset_business_days raised on a weekend-only calendar that an earlier
\* override had changed; the overridden entry is still there.
C23_Witness ==
    /\ status = "ok"
    /\ pc = "returned"
    /\ op = "offset_business_days"
    /\ ~result.ok
    /\ calendar_code = <<"DEFAULT">>
    /\ \E j \in 1..Len(days) : weekday(days[j]) >= 6 /\ business_mask[j]

\* The dates given to the query that returned last.
QueryReturned ==
    /\ status = "ok"
    /\ pc = "returned"
    /\ op \notin {"none", "override"}
QueryDates ==
    IF op \in {"is_business", "offset_business_days", "next_business_day",
               "previous_business_day"}
    THEN {args.day}
    ELSE {Get(o) : o \in {args.start_date, args.end_date} \ {None}}

January4th(y) ==
    CASE y = 2020 -> 18265
      [] y = 2021 -> 18631
      [] y = 2022 -> 18996
      [] y = 2023 -> 19361
      [] y = 2024 -> 19726
      [] y = 2025 -> 20092
      [] y = 2026 -> 20457
      [] y = 2027 -> 20822
MondayOf(d) == d - (WeekdayFromMonday(d) - 1)
WeekOneMonday(y) == MondayOf(January4th(y))
WeekKey(d) == iso_year(d) * 100 + week(d)
WeeklyNames == {"W", "week", "Week", "WEEK"}

\* C25: iso_year and iso_week of a day follow ISO-8601: week 1 of a year is
\* the week, Monday to Sunday, that holds its 4th of January, and a day
\* belongs to the year whose week 1 starts last before or on it; 2024-12-31,
\* a Tuesday, has iso_week 1 and iso_year 2025.  The weekly key
\* iso_year*100 + iso_week never decreases from a day to the next, the days
\* of one Monday-to-Sunday week share one key, and a weekly schedule of
\* first business days has one date per such week.
C25_IsoWeeks ==
    status = "ok" =>
        /\ \A j \in 1..Len(days) :
              LET d == days[j] IN
              /\ WeekOneMonday(iso_year(d)) <= d
              /\ d < WeekOneMonday(iso_year(d) + 1)
              /\ week(d) = (MondayOf(d) - WeekOneMonday(iso_year(d))) \div 7 + 1
        /\ 20088 \in Range(days) =>
              /\ WeekdayFromMonday(20088) = 2
              /\ civil_from_days(20088) = [year |-> 2024, month |-> 12, day |-> 31]
              /\ week(20088) = 1
              /\ iso_year(20088) = 2025
        /\ \A j \in 1..(Len(days) - 1) : WeekKey(days[j]) <= WeekKey(days[j + 1])
        /\ \A j, k \in 1..Len(days) :
              (MondayOf(days[j]) = MondayOf(days[k])) <=> (WeekKey(days[j]) = WeekKey(days[k]))
        /\ (pc = "returned" /\ op = "week_number" /\ result.ok) =>
              result.value = (MondayOf(args.day) - WeekOneMonday(iso_year(args.day))) \div 7 + 1
        /\ (/\ ScheduleReturned("schedule_business")
            /\ args.frequency \in WeeklyNames
            /\ IsStr(args.which, "first")
            /\ result.ok) =>
              LET bd == {d \in ScheduleStart..ScheduleEnd : MaskAt(d)} IN
              Range(result.value) =
                 {d \in bd : \A x \in bd : MondayOf(x) = MondayOf(d) => d <= x}

\* week_number was asked for 2024-12-31 on a calendar over the two weeks
\* around 2025-01-01 and answered 1, in a year other than the day's own.
C25_Witness ==
    /\ status = "ok"
    /\ pc = "returned"
    /\ op = "week_number"
    /\ args.day = 20088
    /\ result = Ok(1)
    /\ year(args.day) = 2024
    /\ iso_year(args.day) = 2025

\* C26: an override call that raises because a date of either list lies
\* outside the universe leaves business_mask and business_position exactly
\* as they were before the call, also when other dates of the lists are
\* inside the universe.
C26_OverrideAtomic ==
    [][(op' = "override" /\ ~result'.ok) =>
          UNCHANGED <<business_mask, business_position>>]_vars

\* An override call raised on the day after the universe; the day of the
\* universe given with it, a non-business day before, is one still.
C26_Witness ==
    /\ status = "ok"
    /\ pc = "returned"
    /\ op = "override"
    /\ ~result.ok
    /\ result.msg = "outside universe"
    /\ \E d \in AddsGiven : InsideUniverse(d) /\ ~MaskAt(d)

C28_AddedHolidayWins ==
    (/\ hub = "ok"
     /\ adapter # << >>
     /\ adapter.type = "override"
     /\ pc = "returned") =>
        LET both == Range(adapter.add_holidays) \cap Range(adapter.remove_holidays) IN
        /\ (op = "adapter.is_business_day" /\ args.d \in both) => result.value = FALSE
        /\ op = "adapter.business_days" => Range(result.value) \cap both = {}
        /\ op = "adapter.holidays" =>
              both \cap (args.start..args.end) \subseteq Range(result.value)

\* A date in both lists that the base calendar opens was asked about and
\* answered as a non-business day.
C28_Witness ==
    /\ hub = "ok"
    /\ adapter # << >>
    /\ adapter.type = "override"
    /\ pc = "returned"
    /\ op = "adapter.is_business_day"
    /\ args.d \in Range(adapter.add_holidays) \cap Range(adapter.remove_holidays)
    /\ adapter_is_business_day(adapter.base_calendar, args.d)
    /\ result.value = FALSE

\* The business days of the range of the schedule call that returned last.
ScheduleBusinessDays == BusinessSet \cap (ScheduleStart..ScheduleEnd)

\* C29: whatever the frequency and the which, a list returned by
\* schedule_business(frequency, which, s, e) is strictly ascending and holds
\* business days of s..e only; it has at most one date per period when which
\* is "first", "last" or an integer; it is business_days(s, e) when which is
\* "all"; and which = 1 returns what which = "first" returns.
C29_ScheduleBusinessShape ==
    (ScheduleReturned("schedule_business") /\ result.ok) =>
        /\ \A j \in 1..(Len(result.value) - 1) : result.value[j] < result.value[j + 1]
        /\ Range(result.value) \subseteq ScheduleBusinessDays
        /\ (ValidFrequency(args.frequency) /\ ValidWhich(args.which)
               /\ ~IsStr(args.which, "all")) =>
              \A x, y \in Range(result.value) :
                 PeriodAt(args.frequency, x) = PeriodAt(args.frequency, y) => x = y
        /\ IsStr(args.which, "all") => Range(result.value) = ScheduleBusinessDays
        /\ args.which = WhichInt(1) =>
              Ok(result.value) = schedule_business(args.frequency, WhichStr("first"),
                                                   args.start_date, args.end_date)

\* which = 1 returned two dates from a range that holds more business days:
\* the first business day of each of two periods.
C29_Witness ==
    /\ ScheduleReturned("schedule_business")
    /\ result.ok
    /\ args.which = WhichInt(1)
    /\ Len(result.value) = 2
    /\ Cardinality(ScheduleBusinessDays) >= 3

\* The adapters the hub holds in its two caches.
CachedAdapters == {ex[k] : k \in DOMAIN ex} \cup {cty[k] : k \in DOMAIN cty}

\* C30: get, with_overrides and combine leave the calendars of the hub as
\* they are: after a call the hub resolves every kind and code as before
\* it, to a calendar with the same is_business_day answers; the adapter that
\* with_overrides or combine returns is a new one, none of the cached ones;
\* a lookup that fails adds no entry to the caches, which never hold a key
\* the libraries do not know.
C30_HubCallsShareNothing ==
    [][op' \in {"get", "with_overrides", "combine"} =>
          /\ \A kind \in KindArgs : \A code \in HubCodeArgs(kind) :
                LET before == resolve(kind, code, ex, cty).res
                    after == resolve(kind, code, ex', cty').res
                IN  /\ before.ok = after.ok
                    /\ before.ok =>
                          \A d \in HubDates :
                             adapter_is_business_day(before.value, d)
                                = adapter_is_business_day(after.value, d)
          /\ world' = world
          /\ (result'.ok /\ op' # "get") => result'.value \notin CachedAdapters'
          /\ (~result'.ok /\ op' # "combine") => (ex' = ex /\ cty' = cty)
          /\ DOMAIN ex' \subseteq KnownMics
          /\ DOMAIN cty' \subseteq KnownIsos]_vars

\* with_overrides opened the first of January on a copy of the FR calendar;
\* the FR calendar of the hub is still closed on it.
C30_Witness ==
    /\ hub = "ok"
    /\ pc = "returned"
    /\ op = "with_overrides"
    /\ args.kind = "country"
    /\ result.ok
    /\ adapter_is_business_day(result.value, HubStart)
    /\ "FR" \in DOMAIN cty
    /\ ~adapter_is_business_day(cty["FR"], HubStart)

====
